---- MODULE Spec2Model ----
(***************************************************************************)
(* A model of devlica's two core subsystems: the benchmark refinement loop *)
(* (package benchmark: SplitReviews, Benchmarker.Run) and the crawl engine *)
(* (package ghcrawl: rateLimitTransport.RoundTrip, Crawler.Crawl).         *)
(*                                                                         *)
(* Each subsystem has its own specification over the shared variables:     *)
(*   SpecRun   / FairSpecRun   Benchmarker.Run                             *)
(*   SpecSplit                 SplitReviews                                *)
(*   SpecRT                    rateLimitTransport.RoundTrip                *)
(*   SpecCrawl                 Crawler.Crawl                               *)
(*   SpecCommits               Crawler.fetchCommits                        *)
(*   SpecMain                  the program's run                           *)
(* A specification leaves the variables of the other subsystems alone.     *)
(***************************************************************************)
EXTENDS Integers, Sequences, FiniteSets, TLC

VARIABLES
    \* ---- Benchmarker.Run
    bpc,            \* position in Run: "start", "generate", "compare", "refine", "returned", "panicked"
    heldOut,        \* the heldOut argument of Run
    heap,           \* the Persona and SynthesisResult objects, by address
    heap0,          \* the heap as it was when Run was called
    persona,        \* the persona argument of Run: the address of the caller's object
    current,        \* Run's local `current`, an address
    iter,           \* Run's loop variable
    idx,            \* runIteration's position in `for _, ho := range heldOut` (1-based)
    generated,      \* runIteration's local `generated`
    iterResult,     \* runIteration's iterResult, totalScore and feedbackParts
    result,         \* Run's local `result`
    ret,            \* what Run returned: result, persona, err
    calls,          \* number of provider.Complete calls made so far, by kind
    failedCall,     \* TRUE once a provider.Complete call returned an error
    cmpRaw,         \* compareReviews's local raw, the last grader text
    refRaw,         \* refinePersona's local raw: <<>>, or <<the last refinement text>>
    graderTexts,    \* the texts the backend can answer a comparison call with
    requests,       \* the Complete calls for generation and refinement, in order, each with
                    \* the persona its prompt was built from
    comp,           \* what compareReviews returned last, with its number of Decode calls
    \* ---- SplitReviews
    spc,            \* "call" before SplitReviews runs, "done" after
    data,           \* the aggregate (data.Repos) SplitReviews works on
    data0,          \* the aggregate as it was passed in
    max,            \* the max argument
    held,           \* the slice SplitReviews returned
    \* ---- rateLimitTransport.RoundTrip
    rtpc,           \* position in RoundTrip: "request", "retrySleep", "proactiveSleep", "returned"
    attempt,        \* the loop variable
    rtResp,         \* the local resp: the response last received from the base transport
    rtSleep,        \* the duration handed to sleepContext, in seconds
    ctxDone,        \* the request's context is cancelled
    now,            \* the clock, in seconds
    rtRet,          \* what RoundTrip returned: resp, err
    rtLog,          \* the responses received so far: status, Retry-After, body closed
    rtRequests,     \* number of base.RoundTrip calls made so far
    rtSlept,        \* the durations of the sleeps that ran to their end
    cancelledIn,    \* the sleep during which the context was cancelled, or "none"
    \* ---- Crawler.Crawl
    cpc,            \* position of Crawl: "profile", "readme", "repos", "phaseA",
                    \* "externalReviews", "phaseB", "returned"
    cMaxRepos,      \* c.maxRepos
    crawledRepos,   \* Crawl's local crawledRepos: the full names given to fetchExternalReviews
    listing,        \* the repositories GitHub lists for the user
    cRepos,         \* Crawl's local `repos`
    deepCrawl,      \* Crawl's local `deepCrawl`
    spawnedA,       \* number of g.Go calls of phase A that have returned
    taskA,          \* position of each phase-A goroutine: "idle", "running",
                    \* "waitLock", "locked", "done"
    rdA,            \* the local `rd` of each phase-A goroutine
    mu,             \* the mutex `mu` is locked
    gCancelled,     \* the errgroup g has cancelled gCtx
    gErr,           \* the error the errgroup g keeps
    g2Cancelled,    \* the errgroup g2 has cancelled gCtx2
    g2Err,          \* the error the errgroup g2 keeps
    taskB,          \* position of each phase-B goroutine: "idle", "running",
                    \* "waitLock", "locked", "done"
    cResult,        \* Crawl's local `result`
    cRet,           \* what Crawl returned: result, err
    cCancelledAt,   \* the position of Crawl at which ctx was cancelled, or "none"
    cFetched,       \* the fetchers called so far
    cFailed,        \* the fetchers that returned an error
    \* ---- selectDiverseRepos
    selpc,          \* "call" before selectDiverseRepos runs, "done" after
    selRepos,       \* the repos argument
    selMax,         \* the maxRepos argument
    selLang,        \* the indices selected when the language phase ends
    selOwned,       \* the indices selected when the temporal fill ends
    selOut,         \* the slice selectDiverseRepos returned
    \* ---- spreadIndices
    sppc,           \* "call" before spreadIndices runs, "done" after
    spTotal,        \* the total argument
    spCount,        \* the count argument
    spOut,          \* the slice spreadIndices returned
    \* ---- Truncate
    tpc,            \* "call" before Truncate runs, "once" after it, "twice" after the second call
    tRunes,         \* the code points s encodes
    tS,             \* the argument s, a sequence of bytes
    tMax,           \* the argument maxLen
    tSuffix,        \* the argument suffix
    tOut,           \* Truncate(s, maxLen, suffix)
    tOut2,          \* Truncate(tOut, maxLen, suffix)
    \* ---- parseComparisonResult
    ppc,            \* "call" before parseComparisonResult runs, "done" after
    pForm,          \* how the text is made: fence, commentary, white space, score, feedback
    pRaw,           \* the argument raw
    pOut,           \* what parseComparisonResult returned, with its number of Decode calls
    \* ---- Crawler.fetchIssueComments
    icpc,           \* position in fetchIssueComments: "search", "issues", "returned"
    icPages,        \* number of Search.Issues calls that returned a page
    icIssues,       \* number of issues of the current page not yet looked at
    icNextPage,     \* resp.NextPage of the current page is not 0
    icLen,          \* len(allComments)
    icRet,          \* what fetchIssueComments returned: len(allComments), err
    \* ---- CrawlResult.TotalReleases
    trpc,           \* "call" before TotalReleases runs, "done" after
    trData,         \* the receiver r, the aggregate
    trOut,          \* what TotalReleases returned
    \* ---- Crawler.fetchCommits
    fcpc,           \* position in fetchCommits: "list", "loop", "returned"
    fcCommits,      \* the commits ListCommits returned
    fcPatchIndices, \* the local patchIndices
    fcI,            \* the loop index i
    fcRequests,     \* the listing indices GetCommit was called for, in call order
    fcFailures,     \* the listing indices whose GetCommit call returned an error
    fcResult,       \* the local result, returned at the end
    \* ---- the program: run
    mainpc,         \* position in run: "crawl", "split", "provider", "analyze", "benchmark", "generate", "returned"
    mainResult,     \* the local result: the repositories of the aggregate Crawl returned
    mainHeldOut,    \* the local heldOut
    mainAnalyzed,   \* the review-comment lists Analyze read, once it has been called
    mainPersona,    \* the local persona
    mainCalls,      \* the calls run has made, in order
    mainRet         \* what run returned

runVars == <<bpc, heldOut, heap, heap0, persona, current, iter, idx, generated, iterResult,
             result, ret, calls, failedCall, cmpRaw, refRaw, graderTexts,
             requests, comp>>
splitVars == <<spc, data, data0, max, held>>
rtVars == <<rtpc, attempt, rtResp, rtSleep, ctxDone, now, rtRet, rtLog, rtRequests,
            rtSlept, cancelledIn>>
crawlVars == <<cpc, cMaxRepos, crawledRepos, listing, cRepos, deepCrawl, spawnedA, taskA, rdA, mu,
               gCancelled, gErr, g2Cancelled, g2Err, taskB, cResult, cRet, cCancelledAt,
               cFetched, cFailed>>
selVars == <<selpc, selRepos, selMax, selLang, selOwned, selOut>>
spreadVars == <<sppc, spTotal, spCount, spOut>>
truncVars == <<tpc, tRunes, tS, tMax, tSuffix, tOut, tOut2>>
parseVars == <<ppc, pForm, pRaw, pOut>>
icVars == <<icpc, icPages, icIssues, icNextPage, icLen, icRet>>
totalVars == <<trpc, trData, trOut>>
commitVars == <<fcpc, fcCommits, fcPatchIndices, fcI, fcRequests, fcFailures, fcResult>>
mainVars == <<mainpc, mainResult, mainHeldOut, mainAnalyzed, mainPersona, mainCalls, mainRet>>
vars == <<runVars, splitVars, rtVars, crawlVars, selVars, spreadVars, truncVars, parseVars, icVars, totalVars, commitVars, mainVars>>

\* What an action of one subsystem leaves alone.
notRun == <<splitVars, rtVars, crawlVars, selVars, spreadVars, truncVars, parseVars, icVars, totalVars, commitVars, mainVars>>
notSplit == <<runVars, rtVars, crawlVars, selVars, spreadVars, truncVars, parseVars, icVars, totalVars, commitVars, mainVars>>
notRT == <<runVars, splitVars, crawlVars, selVars, spreadVars, truncVars, parseVars, icVars, totalVars, commitVars, mainVars>>
notCrawl == <<runVars, splitVars, rtVars, selVars, spreadVars, truncVars, parseVars, icVars, totalVars, commitVars, mainVars>>
notSelect == <<runVars, splitVars, rtVars, crawlVars, spreadVars, truncVars, parseVars, icVars, totalVars, commitVars, mainVars>>
notSpread == <<runVars, splitVars, rtVars, crawlVars, selVars, truncVars, parseVars, icVars, totalVars, commitVars, mainVars>>
notTrunc == <<runVars, splitVars, rtVars, crawlVars, selVars, spreadVars, parseVars, icVars, totalVars, commitVars, mainVars>>
notParse == <<runVars, splitVars, rtVars, crawlVars, selVars, spreadVars, truncVars, icVars, totalVars, commitVars, mainVars>>
notIssueComments == <<runVars, splitVars, rtVars, crawlVars, selVars, spreadVars, truncVars, parseVars, totalVars, commitVars, mainVars>>
notTotal == <<runVars, splitVars, rtVars, crawlVars, selVars, spreadVars, truncVars, parseVars, icVars, commitVars, mainVars>>
notCommits == <<runVars, splitVars, rtVars, crawlVars, selVars, spreadVars, truncVars, parseVars, icVars, totalVars, mainVars>>
notMain == <<runVars, splitVars, rtVars, crawlVars, selVars, spreadVars, truncVars, parseVars, icVars, totalVars, commitVars>>

----------------------------------------------------------------------------
\* Generic helpers

\* A Go pointer that may be nil: <<>> is nil, <<x>> points to x.
Nil == <<>>
Ptr(x) == <<x>>
Deref(p) == p[1]

----------------------------------------------------------------------------
\* Bounds of the model

\* Longest held-out set handed to Run.
MaxSamples == 2
\* Most repositories in the aggregate handed to SplitReviews.
MaxSplitRepos == 2
\* Most review comments per repository handed to SplitReviews.
MaxSplitComments == 2
\* Most repositories GitHub lists for the user Crawl is called for.
MaxListed == 2
\* Largest c.maxRepos.
MaxDeepCrawl == 2
\* Longest list handed to selectDiverseRepos on its own.
MaxSelectRepos == 5
\* Largest budget handed to selectDiverseRepos on its own.
MaxSelectBudget == 4
\* Most repositories in the aggregate Crawl returns to run.
MaxMainRepos == 2
\* Most review comments of one repository in it.
MaxMainComments == 3
\* Longest commit listing handed to fetchCommits.
MaxCommits == 50
\* Most GetCommit calls of one fetchCommits call that fail.
MaxDetailFailures == 1
\* Largest total handed to spreadIndices.
MaxSpreadTotal == 16
\* Largest count handed to spreadIndices.
MaxSpreadCount == 14
\* Longest string, in code points, handed to Truncate.
MaxRunes == 3
\* Largest byte budget handed to Truncate.
MaxTruncLen == 6
\* Most repositories crawled in phase A on its own.
MaxPhaseATasks == 6
\* The repositories crawled when both phases are followed lock by lock.
MaxLockRepos == 2
\* Most pages the issue search has.
MaxSearchPages == 3
\* Most issues on a page of the issue search.
MaxIssuesPerPage == 3
\* Most repositories of an aggregate whose releases are counted.
MaxTotalRepos == 3
\* Most releases of a repository.
MaxReleases == 3
\* Most white space put before and after a grader text.
MaxPadding == 1

----------------------------------------------------------------------------
\* package benchmark: constants

MaxHeldOut == 3
MaxIterations == 5
TargetScore == 80

----------------------------------------------------------------------------
\* package benchmark: SplitReviews

\* The review comments an aggregate can hold: two of them share a body, one
\* has no diff context.
ReviewCommentValues ==
    { [Body |-> "a", Path |-> "f.go", DiffHunk |-> "@@"],
      [Body |-> "a", Path |-> "f.go", DiffHunk |-> ""],
      [Body |-> "b", Path |-> "g.go", DiffHunk |-> "@@"] }

SeqsUpTo(S, n) == UNION { [1..k -> S] : k \in 0..n }

\* data.Repos: the i-th repository is named <<"repo", i>>.
RepoDataValue(i, rcs) ==
    [FullName |-> <<"repo", i>>, ReviewComments |-> rcs, PRComments |-> <<"c">>]

\* The review-comment lists a repository can hold.
CommentLists == SeqsUpTo(ReviewCommentValues, MaxSplitComments)

\* A mutant of HoldsOut: one comment too many is taken.
HoldsOutOffByOne(n, max_, rc) == n <= max_ /\ rc.DiffHunk # ""

\* The test of the inner loop: n is len(heldOut).
HoldsOut(n, max_, rc) == n < max_ /\ rc.DiffHunk # ""

HeldOutReview(fullName, rc) ==
    [RepoFullName |-> fullName, Body |-> rc.Body, Path |-> rc.Path, DiffHunk |-> rc.DiffHunk]

\* kept = append(kept, rc); the mutation puts the comment in front.
KeptInFront(kept, rc) == <<rc>> \o kept
Kept(kept, rc) == Append(kept, rc)

\* The inner loop over one repository's review comments: ho is heldOut so
\* far, kept the comments kept so far.
RECURSIVE SplitComments(_, _, _, _, _)
SplitComments(rcs, fullName, max_, ho, kept) ==
    IF rcs = <<>> THEN [heldOut |-> ho, kept |-> kept]
    ELSE LET rc == Head(rcs) IN
         IF HoldsOut(Len(ho), max_, rc)
         THEN SplitComments(Tail(rcs), fullName, max_,
                            Append(ho, HeldOutReview(fullName, rc)), kept)
         ELSE SplitComments(Tail(rcs), fullName, max_, ho, Kept(kept, rc))

\* The outer loop over data.Repos from index i on: each repository's
\* ReviewComments is replaced by its kept comments.
RECURSIVE SplitRepos(_, _, _, _)
SplitRepos(repos, i, max_, ho) ==
    IF i > Len(repos) THEN [Repos |-> repos, heldOut |-> ho]
    ELSE LET r == SplitComments(repos[i].ReviewComments, repos[i].FullName, max_, ho, <<>>)
         IN SplitRepos([repos EXCEPT ![i].ReviewComments = r.kept], i + 1, max_, r.heldOut)

SplitReviews(repos, max_) == SplitRepos(repos, 1, max_, <<>>)

SplitInit ==
    /\ spc = "call"
    /\ \E k \in 0..MaxSplitRepos : \E f \in [1..k -> CommentLists] :
          data = [i \in 1..k |-> RepoDataValue(i, f[i])]
    /\ data0 = data
    /\ max \in 0..MaxHeldOut
    /\ held = <<>>

SplitParked ==
    /\ spc = "parked"
    /\ data = <<>>
    /\ data0 = <<>>
    /\ max = 0
    /\ held = <<>>

\* heldOut := SplitReviews(data, max)
SplitReviewsCall ==
    /\ spc = "call"
    /\ LET r == SplitReviews(data, max) IN
        /\ data' = r.Repos
        /\ held' = r.heldOut
    /\ spc' = "done"
    /\ UNCHANGED <<data0, max>>
    /\ UNCHANGED notSplit

----------------------------------------------------------------------------
\* package textutil: Truncate

\* The code points the strings are made of: 'a', U+00E9, U+20AC, U+1F600,
\* of one, two, three and four bytes in UTF-8.
Runes == {97, 233, 8364, 128512}

\* The UTF-8 encoding of a code point.
EncodeRune(r) ==
    IF r < 128 THEN <<r>>
    ELSE IF r < 2048 THEN <<192 + (r \div 64), 128 + (r % 64)>>
    ELSE IF r < 65536 THEN
        <<224 + (r \div 4096), 128 + ((r \div 64) % 64), 128 + (r % 64)>>
    ELSE <<240 + (r \div 262144), 128 + ((r \div 4096) % 64),
           128 + ((r \div 64) % 64), 128 + (r % 64)>>

\* The string (a sequence of bytes) of a sequence of code points.
RECURSIVE Utf8(_)
Utf8(runes) == IF runes = <<>> THEN <<>> ELSE EncodeRune(Head(runes)) \o Utf8(Tail(runes))

\* The suffixes in use: "..." and "!".
Suffixes == {<<46, 46, 46>>, <<33>>}

\* s[i], with Go's index from 0
ByteAt(s, i) == s[i + 1]

\* b>>6 == 0b10: b is a UTF-8 continuation byte
IsContinuation(b) == b \div 64 = 2

\* A mutant of WalkBack: the cut stays where the budget puts it.
WalkBackNever(s, cut) == cut
\* for cut > 0 && s[cut]>>6 == 0b10 { cut-- }
RECURSIVE WalkBack(_, _)
WalkBack(s, cut) ==
    IF cut > 0 /\ IsContinuation(ByteAt(s, cut)) THEN WalkBack(s, cut - 1) ELSE cut

Truncate(s, maxLen, suffix) ==
    IF Len(s) <= maxLen THEN s
    ELSE SubSeq(s, 1, WalkBack(s, maxLen)) \o suffix

----------------------------------------------------------------------------
\* Texts, stripCodeFences, json.Decoder, SanitizeJSON

\* Strings are sequences of bytes. The printable ASCII characters but the
\* quote (34), the backslash (92) and the backquote (96): 32 and 33, 35 to
\* 91, 93 to 95, 97 to 126.
PrintableFrom32 == <<" ", "!">>
PrintableFrom35 ==
    <<"#", "$", "%", "&", "'", "(", ")", "*", "+", ",", "-", ".", "/",
      "0", "1", "2", "3", "4", "5", "6", "7", "8", "9", ":", ";", "<", "=", ">", "?",
      "@", "A", "B", "C", "D", "E", "F", "G", "H", "I", "J", "K", "L", "M", "N", "O",
      "P", "Q", "R", "S", "T", "U", "V", "W", "X", "Y", "Z", "[">>
PrintableFrom93 == <<"]", "^", "_">>
PrintableFrom97 ==
    <<"a", "b", "c", "d", "e", "f", "g", "h", "i", "j", "k", "l", "m", "n", "o",
      "p", "q", "r", "s", "t", "u", "v", "w", "x", "y", "z", "{", "|", "}", "~">>

\* The place of c in a table, 0 if it is not there.
PlaceIn(table, c) ==
    IF \E i \in 1..Len(table) : table[i] = c
    THEN CHOOSE i \in 1..Len(table) : table[i] = c
    ELSE 0

\* The byte of a character.
Ascii(c) ==
    IF c = "\t" THEN 9
    ELSE IF c = "\n" THEN 10
    ELSE IF c = "\r" THEN 13
    ELSE IF PlaceIn(PrintableFrom32, c) > 0 THEN 31 + PlaceIn(PrintableFrom32, c)
    ELSE IF PlaceIn(PrintableFrom35, c) > 0 THEN 34 + PlaceIn(PrintableFrom35, c)
    ELSE IF PlaceIn(PrintableFrom93, c) > 0 THEN 92 + PlaceIn(PrintableFrom93, c)
    ELSE 96 + PlaceIn(PrintableFrom97, c)

\* The string of a sequence of characters.
Str(chars) == [i \in 1..Len(chars) |-> Ascii(chars[i])]

TabByte == Ascii("\t")
NewlineByte == Ascii("\n")
ReturnByte == Ascii("\r")
SpaceByte == Ascii(" ")
QuoteByte == 34
BackslashByte == 92
BackquoteByte == 96
OpenBrace == Ascii("{")
CloseBrace == Ascii("}")
OpenBracket == Ascii("[")
CloseBracket == Ascii("]")
ColonByte == Ascii(":")
CommaByte == Ascii(",")
MinusByte == Ascii("-")
DigitBytes == Ascii("0")..Ascii("9")

\* The element of a set of one element. A value that is used more than once
\* is computed once by binding it: TheOne({ e(x) : x \in {v} }) is e(v).
TheOne(S) == CHOOSE x \in S : TRUE

\* The index of the first byte of s at or after i that is in B, 0 if none.
FirstOf(s, i, B) ==
    IF \E k \in i..Len(s) : s[k] \in B
    THEN CHOOSE k \in i..Len(s) : s[k] \in B /\ \A j \in i..(k - 1) : s[j] \notin B
    ELSE 0

\* The index of the first byte of s at or after i that is not in B, Len(s)+1
\* if none.
FirstNotOf(s, i, B) ==
    IF \E k \in i..Len(s) : s[k] \notin B
    THEN CHOOSE k \in i..Len(s) : s[k] \notin B /\ \A j \in i..(k - 1) : s[j] \in B
    ELSE Len(s) + 1

\* The index of the last byte of s that is not in B, 0 if none.
LastNotOf(s, B) ==
    IF \E k \in 1..Len(s) : s[k] \notin B
    THEN Len(s) - (CHOOSE d \in 0..(Len(s) - 1) :
                      s[Len(s) - d] \notin B /\ \A j \in 0..(d - 1) : s[Len(s) - j] \in B)
    ELSE 0

\* s[i:], with Go's index from 0
From(s, i) == SubSeq(s, i + 1, Len(s))

\* s[:i]
UpTo(s, i) == SubSeq(s, 1, i)

HasPrefixAt(s, k, pat) == k + Len(pat) - 1 <= Len(s) /\ SubSeq(s, k, k + Len(pat) - 1) = pat

\* strings.Index(s, pat), for a pattern that is not empty
Index(s, pat) ==
    IF \E k \in 1..Len(s) : HasPrefixAt(s, k, pat)
    THEN (CHOOSE k \in 1..Len(s) :
             HasPrefixAt(s, k, pat) /\ \A j \in 1..(k - 1) : ~HasPrefixAt(s, j, pat)) - 1
    ELSE -1

\* strings.LastIndex(s, pat), for a pattern that is not empty
LastIndex(s, pat) ==
    IF \E k \in 1..Len(s) : HasPrefixAt(s, k, pat)
    THEN Len(s) - (CHOOSE d \in 1..Len(s) :
                      /\ HasPrefixAt(s, Len(s) - d + 1, pat)
                      /\ \A j \in 1..(d - 1) : ~HasPrefixAt(s, Len(s) - j + 1, pat))
    ELSE -1

\* strings.TrimPrefix
TrimPrefix(s, pat) == IF HasPrefixAt(s, 1, pat) THEN From(s, Len(pat)) ELSE s

\* The ASCII white space of unicode.IsSpace: \t, \n, \v, \f, \r and the space.
SpaceBytes == (TabByte..ReturnByte) \cup {SpaceByte}

\* strings.TrimSpace, for the ASCII white space
TrimSpace(s) == SubSeq(s, FirstNotOf(s, 1, SpaceBytes), LastNotOf(s, SpaceBytes))

Fence == <<BackquoteByte, BackquoteByte, BackquoteByte>>
JsonTag == Str(<<"j", "s", "o", "n">>)

\* A mutant of stripCodeFences: the text is trimmed and fences stay.
stripCodeFencesNot(s) == TrimSpace(s)
stripCodeFences(s) ==
    TheOne({
        IF Len(text) > 0 /\ text[1] # OpenBrace /\ Index(text, Fence) >= 0
        THEN TheOne({
                 TheOne({ TrimSpace(IF end >= 0 THEN UpTo(opened, end) ELSE opened) :
                          end \in {LastIndex(opened, Fence)} }) :
                 opened \in {TrimPrefix(From(text, Index(text, Fence) + 3), JsonTag)} })
        ELSE text :
        text \in {TrimSpace(s)} })

\* validJSONEscape
validJSONEscape(ch) ==
    ch \in {QuoteByte, BackslashByte, Ascii("/"), Ascii("b"), Ascii("f"), Ascii("n"),
            Ascii("r"), Ascii("t"), Ascii("u")}

\* The bytes at which SanitizeJSON does more than copy: the quote, the
\* backslash and the three control characters it escapes. Every other byte
\* goes to the output as it is, in a string or not; bytes of a multi-byte
\* code point are among them.
SanitizeStops == {QuoteByte, BackslashByte, NewlineByte, ReturnByte, TabByte}

\* The loop of SanitizeJSON from byte i on, with its inString and escaped.
RECURSIVE SanitizeFrom(_, _, _, _)
SanitizeFrom(s, i, inString, escaped) ==
    IF i > Len(s) THEN <<>>
    ELSE IF escaped
    THEN (IF validJSONEscape(s[i]) THEN <<s[i]>> ELSE <<BackslashByte, s[i]>>)
         \o SanitizeFrom(s, i + 1, inString, FALSE)
    ELSE TheOne({
         IF j = 0 THEN SubSeq(s, i, Len(s))
         ELSE SubSeq(s, i, j - 1) \o
              (IF s[j] = BackslashByte /\ inString
                   THEN <<s[j]>> \o SanitizeFrom(s, j + 1, inString, TRUE)
               ELSE IF s[j] = QuoteByte
                   THEN <<s[j]>> \o SanitizeFrom(s, j + 1, ~inString, FALSE)
               ELSE IF inString /\ s[j] = NewlineByte
                   THEN <<BackslashByte, Ascii("n")>> \o SanitizeFrom(s, j + 1, inString, FALSE)
               ELSE IF inString /\ s[j] = ReturnByte
                   THEN <<BackslashByte, Ascii("r")>> \o SanitizeFrom(s, j + 1, inString, FALSE)
               ELSE IF inString /\ s[j] = TabByte
                   THEN <<BackslashByte, Ascii("t")>> \o SanitizeFrom(s, j + 1, inString, FALSE)
               ELSE <<s[j]>> \o SanitizeFrom(s, j + 1, inString, FALSE)) :
         j \in {FirstOf(s, i, SanitizeStops)} })

SanitizeJSON(s) ==
    TheOne({ SanitizeFrom(text, 1, FALSE, FALSE) : text \in {s} })

\* The white space of the JSON grammar.
JsonSpace == {SpaceByte, TabByte, NewlineByte, ReturnByte}

\* What the scanner answers where the text is no JSON.
SyntaxError == [ok |-> FALSE, next |-> 0, val |-> [kind |-> "none"]]
Scanned(next, val) == [ok |-> TRUE, next |-> next, val |-> val]

HexBytes == DigitBytes \cup (Ascii("a")..Ascii("f")) \cup (Ascii("A")..Ascii("F"))
HexValue(b) ==
    IF b \in DigitBytes THEN b - Ascii("0")
    ELSE IF b >= Ascii("a") THEN b - Ascii("a") + 10
    ELSE b - Ascii("A") + 10

\* The bytes a one-letter escape stands for.
Unescaped(ch) ==
    IF ch = Ascii("b") THEN 8
    ELSE IF ch = Ascii("f") THEN 12
    ELSE IF ch = Ascii("n") THEN NewlineByte
    ELSE IF ch = Ascii("r") THEN ReturnByte
    ELSE IF ch = Ascii("t") THEN TabByte
    ELSE ch

\* The code point of \uXXXX with the four hex digits from s[i] on; a
\* surrogate half gives U+FFFD (pairs of surrogates are not combined here).
UnicodeEscape(s, i) ==
    LET r == 4096 * HexValue(s[i]) + 256 * HexValue(s[i + 1])
             + 16 * HexValue(s[i + 2]) + HexValue(s[i + 3])
    IN  IF r >= 55296 /\ r <= 57343 THEN 65533 ELSE r

\* The bytes that end a run of ordinary bytes in a string literal: the
\* quote, the backslash and the control characters.
StringStops == {QuoteByte, BackslashByte} \cup (0..(SpaceByte - 1))

\* A string literal from the byte after its opening quote on; acc is what
\* was unquoted so far.
RECURSIVE ScanString(_, _, _)
ScanString(s, i, acc) ==
    TheOne({
        IF j = 0 THEN SyntaxError
        ELSE TheOne({
            IF s[j] = QuoteByte THEN Scanned(j + 1, [kind |-> "string", str |-> plain])
            ELSE IF s[j] # BackslashByte \/ j + 1 > Len(s) THEN SyntaxError
            ELSE IF s[j + 1] = Ascii("u")
            THEN (IF j + 5 <= Len(s) /\ \A k \in (j + 2)..(j + 5) : s[k] \in HexBytes
                  THEN ScanString(s, j + 6, plain \o EncodeRune(UnicodeEscape(s, j + 2)))
                  ELSE SyntaxError)
            ELSE IF validJSONEscape(s[j + 1])
            THEN ScanString(s, j + 2, plain \o <<Unescaped(s[j + 1])>>)
            ELSE SyntaxError :
            plain \in {acc \o SubSeq(s, i, j - 1)} }) :
        j \in {FirstOf(s, i, StringStops)} })

\* The number a run of decimal digits denotes.
RECURSIVE DigitsValue(_)
DigitsValue(ds) ==
    IF ds = <<>> THEN 0
    ELSE 10 * DigitsValue(SubSeq(ds, 1, Len(ds) - 1)) + (ds[Len(ds)] - Ascii("0"))

\* A number literal from s[i] on. Only integers are read: a fraction or an
\* exponent ends the literal, and no text of the model has one.
ScanNumber(s, i) ==
    TheOne({
        TheOne({
            IF e = d THEN SyntaxError
            ELSE Scanned(e, [kind |-> "number",
                             num |-> IF d > i THEN 0 - DigitsValue(SubSeq(s, d, e - 1))
                                     ELSE DigitsValue(SubSeq(s, d, e - 1))]) :
            e \in {IF d <= Len(s) /\ s[d] = Ascii("0") THEN d + 1
                   ELSE FirstNotOf(s, d, DigitBytes)} }) :
        d \in {IF s[i] = MinusByte THEN i + 1 ELSE i} })

Literals == {<<"t", "r", "u", "e">>, <<"f", "a", "l", "s", "e">>, <<"n", "u", "l", "l">>}

RECURSIVE ScanValue(_, _)
RECURSIVE ScanMembers(_, _, _, _)
RECURSIVE ScanElements(_, _, _, _)
RECURSIVE AfterMember(_, _, _)
RECURSIVE AfterKey(_, _, _, _)
RECURSIVE AfterElement(_, _, _)

\* After a member of an object: a comma and the next member, or the closing
\* brace.
AfterMember(s, i, all) ==
    TheOne({
        IF m > Len(s) THEN SyntaxError
        ELSE IF s[m] = CommaByte THEN ScanMembers(s, m + 1, all, FALSE)
        ELSE IF s[m] = CloseBrace THEN Scanned(m + 1, [kind |-> "object", members |-> all])
        ELSE SyntaxError :
        m \in {FirstNotOf(s, i, JsonSpace)} })

\* After the key of a member: the colon and the value.
AfterKey(s, i, acc, key) ==
    TheOne({
        IF c > Len(s) \/ s[c] # ColonByte THEN SyntaxError
        ELSE TheOne({
            IF ~v.ok THEN SyntaxError
            ELSE TheOne({ AfterMember(s, v.next, all) :
                          all \in {Append(acc, [key |-> key, val |-> v.val])} }) :
            v \in {ScanValue(s, c + 1)} }) :
        c \in {FirstNotOf(s, i, JsonSpace)} })

\* The members of an object from s[i] on: at the start of the object
\* (first), or after a comma.
ScanMembers(s, i, acc, first) ==
    TheOne({
        IF j > Len(s) THEN SyntaxError
        ELSE IF first /\ s[j] = CloseBrace
        THEN Scanned(j + 1, [kind |-> "object", members |-> acc])
        ELSE IF s[j] # QuoteByte THEN SyntaxError
        ELSE TheOne({ IF ~k.ok THEN SyntaxError ELSE AfterKey(s, k.next, acc, k.val.str) :
                      k \in {ScanString(s, j + 1, <<>>)} }) :
        j \in {FirstNotOf(s, i, JsonSpace)} })

\* After an element of an array: a comma and the next element, or the
\* closing bracket.
AfterElement(s, i, all) ==
    TheOne({
        IF m > Len(s) THEN SyntaxError
        ELSE IF s[m] = CommaByte THEN ScanElements(s, m + 1, all, FALSE)
        ELSE IF s[m] = CloseBracket THEN Scanned(m + 1, [kind |-> "array", elements |-> all])
        ELSE SyntaxError :
        m \in {FirstNotOf(s, i, JsonSpace)} })

\* The elements of an array, likewise.
ScanElements(s, i, acc, first) ==
    TheOne({
        IF j > Len(s) THEN SyntaxError
        ELSE IF first /\ s[j] = CloseBracket
        THEN Scanned(j + 1, [kind |-> "array", elements |-> acc])
        ELSE TheOne({
            IF ~v.ok THEN SyntaxError
            ELSE TheOne({ AfterElement(s, v.next, all) : all \in {Append(acc, v.val)} }) :
            v \in {ScanValue(s, j)} }) :
        j \in {FirstNotOf(s, i, JsonSpace)} })

\* The JSON value that starts at or after s[i].
ScanValue(s, i) ==
    TheOne({
        IF j > Len(s) THEN SyntaxError
        ELSE IF s[j] = OpenBrace THEN ScanMembers(s, j + 1, <<>>, TRUE)
        ELSE IF s[j] = OpenBracket THEN ScanElements(s, j + 1, <<>>, TRUE)
        ELSE IF s[j] = QuoteByte THEN ScanString(s, j + 1, <<>>)
        ELSE IF s[j] = MinusByte \/ s[j] \in DigitBytes THEN ScanNumber(s, j)
        ELSE IF \E w \in Literals : HasPrefixAt(s, j, Str(w))
        THEN LET w == CHOOSE w \in Literals : HasPrefixAt(s, j, Str(w)) IN
             Scanned(j + Len(w), [kind |-> IF w[1] = "n" THEN "null" ELSE "bool"])
        ELSE SyntaxError :
        j \in {FirstNotOf(s, i, JsonSpace)} })

\* var parsed struct { Score float64; Feedback string }
ZeroParsed == [Score |-> 0, Feedback |-> <<>>]

\* bytes.EqualFold for ASCII letters: the match of an object key with a field.
FoldByte(b) == IF b >= Ascii("A") /\ b <= Ascii("Z") THEN b + 32 ELSE b
KeyIs(key, name) == [i \in 1..Len(key) |-> FoldByte(key[i])] = Str(name)

\* The members of an object stored into parsed one after the other: a later
\* one overwrites an earlier one, null stores nothing, a value of the wrong
\* type is an error that does not stop the rest from being stored.
RECURSIVE UnmarshalMembers(_, _, _)
UnmarshalMembers(ms, parsed, err) ==
    IF ms = <<>> THEN [err |-> err, parsed |-> parsed]
    ELSE LET m == Head(ms) IN
         IF KeyIs(m.key, <<"s", "c", "o", "r", "e">>) /\ m.val.kind # "null"
         THEN (IF m.val.kind = "number"
               THEN UnmarshalMembers(Tail(ms), [parsed EXCEPT !.Score = m.val.num], err)
               ELSE UnmarshalMembers(Tail(ms), parsed, TRUE))
         ELSE IF KeyIs(m.key, <<"f", "e", "e", "d", "b", "a", "c", "k">>) /\ m.val.kind # "null"
         THEN (IF m.val.kind = "string"
               THEN UnmarshalMembers(Tail(ms), [parsed EXCEPT !.Feedback = m.val.str], err)
               ELSE UnmarshalMembers(Tail(ms), parsed, TRUE))
         ELSE UnmarshalMembers(Tail(ms), parsed, err)

\* json.NewDecoder(strings.NewReader(text)).Decode(&parsed): the first JSON
\* value of the text is scanned, and nothing after an object or an array is
\* looked at; a value that is no object is an error, except null.
Decode(text, parsed) ==
    TheOne({
        TheOne({
            IF ~v.ok THEN [err |-> TRUE, parsed |-> parsed]
            ELSE IF v.val.kind \notin {"object", "array"}
                    /\ v.next <= Len(t) /\ t[v.next] \notin JsonSpace
            THEN [err |-> TRUE, parsed |-> parsed]
            ELSE IF v.val.kind = "null" THEN [err |-> FALSE, parsed |-> parsed]
            ELSE IF v.val.kind # "object" THEN [err |-> TRUE, parsed |-> parsed]
            ELSE UnmarshalMembers(v.val.members, parsed, FALSE) :
            v \in {ScanValue(t, 1)} }) :
        t \in {text} })

\* Truncate(raw, 500, "...")
ExcerptBytes == 500
Ellipsis == Str(<<".", ".", ".">>)

\* What parseComparisonResult returns: nil and an error with the excerpt of
\* raw, or the comparisonResult and nil; decodes counts its Decode calls.
ParseSuccess(parsed, n) ==
    [result |-> Ptr([score |-> parsed.Score, feedback |-> parsed.Feedback]),
     err |-> Nil,
     decodes |-> n]
\* A mutant of ParseFailure: the pair is scored 0.
ParseFailureScoresZero(raw, n) == ParseSuccess(ZeroParsed, n)
ParseFailure(raw, n) ==
    [result |-> Nil,
     err |-> Ptr([msg |-> "invalid comparison JSON",
                  raw |-> Truncate(raw, ExcerptBytes, Ellipsis)]),
     decodes |-> n]

parseComparisonResult(raw) ==
    TheOne({
        TheOne({
            IF ~first.err THEN ParseSuccess(first.parsed, 1)
            ELSE TheOne({ IF second.err THEN ParseFailure(raw, 2)
                          ELSE ParseSuccess(second.parsed, 2) :
                          second \in {Decode(SanitizeJSON(text), first.parsed)} }) :
            first \in {Decode(text, ZeroParsed)} }) :
        text \in {stripCodeFences(raw)} })

\* Texts a model may answer with.
Quoted(s) == <<QuoteByte>> \o s \o <<QuoteByte>>
ScoreObject(score, feedback) ==
    Str(<<"{">>) \o Quoted(Str(<<"s", "c", "o", "r", "e">>)) \o Str(<<":", " ">>) \o score
    \o Str(<<",", " ">>) \o Quoted(Str(<<"f", "e", "e", "d", "b", "a", "c", "k">>))
    \o Str(<<":", " ">>) \o Quoted(feedback) \o Str(<<"}">>)
Fenced(tag, body) == Fence \o tag \o <<NewlineByte>> \o body \o <<NewlineByte>> \o Fence
Filler(n) == [i \in 1..n |-> Ascii("x")]

\* A text that is no JSON and is longer than the excerpt, with a two-byte
\* code point across the 500th byte.
LongGarbage == Filler(ExcerptBytes - 1) \o Utf8(<<233>>) \o Filler(2)

----------------------------------------------------------------------------
\* package analyzer: ParseSynthesis

\* A SynthesisResult: CodingPhilosophy and ReviewVoice stand for its ten
\* string fields, which the code handles alike.
SynthesisResult(philosophy, voice) == [CodingPhilosophy |-> philosophy, ReviewVoice |-> voice]
ZeroSynthesis == SynthesisResult(<<>>, <<>>)

\* The json tags of the two fields.
CodingPhilosophyTag ==
    <<"c", "o", "d", "i", "n", "g", "_", "p", "h", "i", "l", "o", "s", "o", "p", "h", "y">>
ReviewVoiceTag == <<"r", "e", "v", "i", "e", "w", "_", "v", "o", "i", "c", "e">>

\* json.Unmarshal's reading of a whole text: one JSON value with nothing but
\* white space around it.
Unmarshal(text) ==
    TheOne({
        IF ~v.ok \/ FirstNotOf(text, v.next, JsonSpace) <= Len(text) THEN SyntaxError
        ELSE v :
        v \in {ScanValue(text, 1)} })

\* The map an object is stored into, as the sequence of its members: of two
\* members with one key the later one stays.
RECURSIVE RawMembers(_)
RawMembers(ms) ==
    IF ms = <<>> THEN <<>>
    ELSE IF \E j \in 2..Len(ms) : ms[j].key = ms[1].key THEN RawMembers(Tail(ms))
    ELSE <<Head(ms)>> \o RawMembers(Tail(ms))

\* json.Unmarshal(text, &rawMap): an object fills the map, null leaves it nil
\* without an error, and any other value is an error. The nil map and the
\* empty one are both <<>>: neither has a key to range over, and "null" and
\* "{}" both leave the result at its zero value.
UnmarshalRawMap(text) ==
    TheOne({
        IF ~v.ok \/ v.val.kind \notin {"object", "null"} THEN [err |-> TRUE, rawMap |-> <<>>]
        ELSE [err |-> FALSE,
              rawMap |-> IF v.val.kind = "null" THEN <<>> ELSE RawMembers(v.val.members)] :
        v \in {Unmarshal(text)} })

\* strings.Join(items, "\n") of the elements of an array read into []string:
\* a null element is the empty string.
RECURSIVE JoinItems(_)
JoinItems(elements) ==
    IF elements = <<>> THEN <<>>
    ELSE (IF Head(elements).kind = "null" THEN <<>> ELSE Head(elements).str)
         \o (IF Len(elements) > 1 THEN <<NewlineByte>> ELSE <<>>)
         \o JoinItems(Tail(elements))

\* The loop over rawMap: a value that is an array of strings becomes the
\* string of its elements joined by newlines, any other value stays.
NormalizedValue(val) ==
    IF val.kind = "array"
       /\ \A i \in 1..Len(val.elements) : val.elements[i].kind \in {"string", "null"}
    THEN [kind |-> "string", str |-> JoinItems(val.elements)]
    ELSE val

\* json.Unmarshal(normalized, &result): the members stored into the fields
\* whose tag they match, null storing nothing and a value that is no string
\* being an error.
RECURSIVE UnmarshalSynthesis(_, _, _)
UnmarshalSynthesis(ms, res, err) ==
    IF ms = <<>> THEN [err |-> err, result |-> res]
    ELSE TheOne({
         IF val.kind = "null"
            \/ ~(KeyIs(Head(ms).key, CodingPhilosophyTag) \/ KeyIs(Head(ms).key, ReviewVoiceTag))
         THEN UnmarshalSynthesis(Tail(ms), res, err)
         ELSE IF val.kind # "string" THEN UnmarshalSynthesis(Tail(ms), res, TRUE)
         ELSE IF KeyIs(Head(ms).key, CodingPhilosophyTag)
         THEN UnmarshalSynthesis(Tail(ms), [res EXCEPT !.CodingPhilosophy = val.str], err)
         ELSE UnmarshalSynthesis(Tail(ms), [res EXCEPT !.ReviewVoice = val.str], err) :
         val \in {NormalizedValue(Head(ms).val)} })

\* What ParseSynthesis answers: a result, an error, or a run-time panic.
ParsedSynthesis(res) == [outcome |-> "ok", synthesis |-> res]
ParseError == [outcome |-> "err", synthesis |-> ZeroSynthesis]
ParsePanic == [outcome |-> "panic", synthesis |-> ZeroSynthesis]

\* The text between the first fence and the last one, as ParseSynthesis cuts
\* it out of a text that has a fence.
BetweenFences(text) ==
    TheOne({
        TheOne({ TrimSpace(IF end >= 0 THEN UpTo(opened, end) ELSE opened) :
                 end \in {LastIndex(opened, Fence)} }) :
        opened \in {TrimPrefix(From(text, Index(text, Fence) + 3), JsonTag)} })

\* The second half of ParseSynthesis, from the filled rawMap on.
NormalizeAndUnmarshal(rawMap) ==
    TheOne({ IF u.err THEN ParseError ELSE ParsedSynthesis(u.result) :
             u \in {UnmarshalSynthesis(rawMap, ZeroSynthesis, FALSE)} })

\* ParseSynthesis: text[0] is read right after TrimSpace with no length
\* check, which is an index out of range when the text is empty.
ParseSynthesis(raw) ==
    TheOne({
        IF Len(trimmed) = 0 THEN ParsePanic
        ELSE TheOne({
            TheOne({
                IF ~first.err THEN NormalizeAndUnmarshal(first.rawMap)
                ELSE TheOne({
                    IF second.err THEN ParseError
                    ELSE NormalizeAndUnmarshal(second.rawMap) :
                    second \in {UnmarshalRawMap(SanitizeJSON(text))} }) :
                first \in {UnmarshalRawMap(text)} }) :
            text \in {IF trimmed[1] # OpenBrace /\ Index(trimmed, Fence) >= 0
                      THEN BetweenFences(trimmed) ELSE trimmed} }) :
        trimmed \in {TrimSpace(raw)} })

\* {"<tag>": <value>}
SynthesisObject(tag, value) ==
    Str(<<"{">>) \o Quoted(Str(tag)) \o Str(<<":", " ">>) \o value \o Str(<<"}">>)

----------------------------------------------------------------------------
\* package benchmark: Benchmarker.Run

\* A float64 score, kept exact as a fraction num/den with den > 0.
Rat(n, d) == [num |-> n, den |-> d]
RatGEq(r, k) == r.num >= k * r.den
RatLess(r, k) == r.num < k * r.den

\* The held-out sets handed to Run: the first k of MaxSamples distinct reviews.
HeldOutSample(i) ==
    [RepoFullName |-> <<"repo", 1>>, Body |-> <<"body", i>>, Path |-> <<"path", i>>,
     DiffHunk |-> "@@"]
HeldOutSets == { [i \in 1..k |-> HeldOutSample(i)] : k \in 0..MaxSamples }

\* The heaps Run is called with: the caller's SynthesisResult at address 1
\* and the caller's Persona, which points to it, at address 2. Analyze always
\* sets Synthesis before Run is reached, so it is never nil here.
Personas == { [Username |-> "dev", Synthesis |-> Ptr(1)] }
CallerHeaps ==
    { <<SynthesisResult(Str(<<"s", t>>), Str(<<"v", t>>)), p>> : t \in {"0", "9"}, p \in Personas }
CallerPersona == 2

\* The Persona at address p with the SynthesisResult it points to.
PersonaValue(h, p) ==
    [Username |-> h[p].Username,
     Synthesis |-> IF h[p].Synthesis = Nil THEN Nil ELSE Ptr(h[Deref(h[p].Synthesis)])]

\* A Complete call of generateDryRunReview or refinePersona: the iteration it
\* belongs to, the persona its prompt shows and, for a refinement that
\* succeeded, the persona refinePersona returned.
Request(kind, i, p, returned) ==
    [kind |-> kind, Iteration |-> i, persona |-> p, returned |-> returned]

\* What provider.Complete can answer: an error, or a text.
CompleteErr == [err |-> TRUE, text |-> <<>>]
CompleteOK(t) == [err |-> FALSE, text |-> <<t>>]

\* Texts of the generation call.
GeneratedTexts == { "LGTM" }

\* Texts of the comparison call: a bare object, a fenced object with a
\* literal newline in its feedback, and two texts that hold no JSON.
GraderTexts ==
    { ScoreObject(Str(<<"7", "0">>), Str(<<"t", "o", "n", "e">>)),
      Fenced(JsonTag, ScoreObject(Str(<<"9", "0">>), Str(<<"o", "k", "\n", "!">>))),
      Str(<<"n", "o">>),
      LongGarbage }

\* Texts of the comparison call of a grader that does not keep to the range
\* it is asked for: a score of 70, a score below 0 and one above 100.
WideGraderTexts ==
    { ScoreObject(Str(<<"7", "0">>), Str(<<"t", "o", "n", "e">>)),
      ScoreObject(Str(<<"-", "5">>), Str(<<"o", "f", "f">>)),
      ScoreObject(Str(<<"1", "5", "0">>), Str(<<"w", "o", "w">>)) }

\* The grader and the held-out set of a run: the grader of GraderTexts with
\* every held-out set, or the wide grader with a single held-out review.
Graders ==
    { [texts |-> GraderTexts, heldOut |-> h] : h \in HeldOutSets }
    \cup { [texts |-> WideGraderTexts, heldOut |-> <<HeldOutSample(1)>>] }

\* Texts of the refinement call: the empty text and one of white space
\* only, a text that holds no JSON, the literal null, an object whose string
\* has a literal newline in it, a fenced object whose value is an array of
\* strings, and an object whose value is a number.
RefineTexts ==
    { <<>>,
      Str(<<" ", "\n">>),
      Str(<<"n", "o">>),
      Str(<<"n", "u", "l", "l">>),
      SynthesisObject(CodingPhilosophyTag, Quoted(Str(<<"s", "\n", "1">>))),
      Fenced(JsonTag, SynthesisObject(ReviewVoiceTag,
                 Str(<<"[">>) \o Quoted(Str(<<"a">>)) \o Str(<<",">>)
                 \o Quoted(Str(<<"b">>)) \o Str(<<"]">>))),
      SynthesisObject(CodingPhilosophyTag, Str(<<"7">>)) }

\* A mutant of clonePersona: the pointer it was given is handed back.
clonePersonaAlias(h, p) == [heap |-> h, ptr |-> p]

\* clonePersona: a new Persona, copied from *p, that points to a new copy of
\* the SynthesisResult *p points to. The heap after it and the new address.
clonePersona(h, p) ==
    IF h[p].Synthesis # Nil
    THEN LET h1 == Append(h, h[Deref(h[p].Synthesis)])
             h2 == Append(h1, [h[p] EXCEPT !.Synthesis = Ptr(Len(h1))])
         IN [heap |-> h2, ptr |-> Len(h2)]
    ELSE [heap |-> Append(h, h[p]), ptr |-> Len(h) + 1]

\* strings.Join(feedbackParts, "\n---\n"), as the sequence of its pieces.
RECURSIVE JoinFeedback(_)
JoinFeedback(parts) ==
    IF Len(parts) <= 1 THEN parts
    ELSE <<Head(parts), "\n---\n">> \o JoinFeedback(Tail(parts))

\* &Result{} and &IterationResult{Iteration: iter} with totalScore and feedbackParts.
EmptyResult == [FinalScore |-> Rat(0, 1), Iterations |-> 0, History |-> <<>>]
\* A mutant of SkippedResult: the zero Result.
SkippedResultZero == [FinalScore |-> Rat(0, 1), Iterations |-> 0, History |-> <<>>]
\* &Result{FinalScore: -1}
SkippedResult == [FinalScore |-> Rat(-1, 1), Iterations |-> 0, History |-> <<>>]
NewIteration(i) ==
    [Iteration |-> i, Pairs |-> <<>>, totalScore |-> 0, feedbackParts |-> <<>>]

NoReturn == [result |-> Nil, persona |-> Nil, err |-> Nil]

\* compareReviews has not returned yet.
NoComparison == [result |-> Nil, err |-> Nil, decodes |-> 0]

\* compareReviews: the error of provider.Complete, or parseComparisonResult(raw).
\* Both errors are records of one shape; the provider's carries no excerpt.
compareReviews(reply) ==
    IF reply.err
    THEN [result |-> Nil, err |-> Ptr([msg |-> "provider", raw |-> <<>>]), decodes |-> 0]
    ELSE parseComparisonResult(reply.text[1])

\* A mutant of LoopContinues: one iteration too many.
LoopContinuesOffByOne(i) == i <= MaxIterations + 1

\* The condition of Run's for loop.
LoopContinues(i) == i <= MaxIterations

\* A mutant of TargetReached: the target is never seen as reached.
TargetReachedNever(score) == FALSE

\* if iterResult.Score >= TargetScore { break }
TargetReached(score) == RatGEq(score, TargetScore)

\* if iter < MaxIterations { refine }
NeedsRefine(i) == i < MaxIterations

\* A mutant of ErrorReturn: the result built so far is handed back with the error.
ErrorReturnPartial(res, cur, msg) ==
    [result |-> Ptr(res), persona |-> Ptr(cur), err |-> Ptr(msg)]

\* return nil, nil, fmt.Errorf(...)
ErrorReturn(res, cur, msg) == [result |-> Nil, persona |-> Nil, err |-> Ptr(msg)]

RunInit ==
    /\ bpc = "start"
    /\ \E g \in Graders : graderTexts = g.texts /\ heldOut = g.heldOut
    /\ heap \in CallerHeaps
    /\ heap0 = heap
    /\ persona = CallerPersona
    /\ current = persona
    /\ iter = 0
    /\ idx = 0
    /\ generated = ""
    /\ iterResult = NewIteration(0)
    /\ result = EmptyResult
    /\ ret = NoReturn
    /\ calls = [gen |-> 0, cmp |-> 0, ref |-> 0]
    /\ failedCall = FALSE
    /\ cmpRaw = <<>>
    /\ refRaw = <<>>
    /\ requests = <<>>
    /\ comp = NoComparison

RunParked ==
    /\ bpc = "parked"
    /\ heldOut = <<>>
    /\ graderTexts = {}
    /\ heap = <<>>
    /\ heap0 = <<>>
    /\ persona = CallerPersona
    /\ current = persona
    /\ iter = 0
    /\ idx = 0
    /\ generated = ""
    /\ iterResult = NewIteration(0)
    /\ result = EmptyResult
    /\ ret = NoReturn
    /\ calls = [gen |-> 0, cmp |-> 0, ref |-> 0]
    /\ failedCall = FALSE
    /\ cmpRaw = <<>>
    /\ refRaw = <<>>
    /\ requests = <<>>
    /\ comp = NoComparison

\* A mutant of SuccessReturn: the persona Run was called with is handed back.
SuccessReturnInput(res, cur) == [result |-> Ptr(res), persona |-> Ptr(persona), err |-> Nil]

\* return result, current, nil
SuccessReturn(res, cur) == [result |-> Ptr(res), persona |-> Ptr(cur), err |-> Nil]

\* The top of the for loop with iter = i: either runIteration begins, up to
\* its first generation call, or the loop is over and Run returns.
LoopTop(i, res, cur) ==
    /\ iter' = i
    /\ IF LoopContinues(i)
       THEN /\ iterResult' = NewIteration(i)
            /\ idx' = 1
            /\ bpc' = "generate"
            /\ ret' = ret
       ELSE /\ bpc' = "returned"
            /\ ret' = SuccessReturn(res, cur)
            /\ UNCHANGED <<iterResult, idx>>

\* Run returns an error.
Fail(msg) ==
    /\ bpc' = "returned"
    /\ ret' = ErrorReturn(result, current, msg)
    /\ UNCHANGED <<current, iter, idx, generated, iterResult, result>>

\* Run up to its first backend call.
RunStart ==
    /\ bpc = "start"
    /\ IF Len(heldOut) = 0
       THEN /\ bpc' = "returned"
            /\ ret' = [result |-> Ptr(SkippedResult), persona |-> Ptr(persona), err |-> Nil]
            /\ UNCHANGED <<heap, current, iter, idx, iterResult, result>>
       ELSE \E clone \in {clonePersona(heap, persona)} :
            /\ result' = EmptyResult
            /\ heap' = clone.heap
            /\ current' = clone.ptr
            /\ LoopTop(1, EmptyResult, clone.ptr)
    /\ UNCHANGED <<heldOut, graderTexts, heap0, persona, generated, calls, failedCall,
                   cmpRaw, refRaw, requests, comp>>
    /\ UNCHANGED notRun

\* generateDryRunReview for heldOut[idx]: one provider.Complete call.
Generate ==
    /\ bpc = "generate"
    /\ calls' = [calls EXCEPT !.gen = @ + 1]
    /\ requests' = Append(requests, Request("generate", iter, PersonaValue(heap, current), Nil))
    /\ \E reply \in {CompleteErr} \cup { CompleteOK(t) : t \in GeneratedTexts } :
        IF reply.err
        THEN /\ failedCall' = TRUE
             /\ Fail("dry-run review")
        ELSE /\ generated' = reply.text[1]
             /\ bpc' = "compare"
             /\ UNCHANGED <<current, iter, idx, iterResult, result, ret, failedCall>>
    /\ UNCHANGED <<heldOut, graderTexts, heap, heap0, persona, cmpRaw, refRaw, comp>>
    /\ UNCHANGED notRun

\* A mutant of AppendHistory: the new entry takes the place of the last one.
AppendHistoryOverLast(history, entry) ==
    IF history = <<>> THEN <<entry>> ELSE [history EXCEPT ![Len(history)] = entry]

\* result.History = append(result.History, *iterResult)
AppendHistory(history, entry) == Append(history, entry)

\* The iteration result runIteration returns from its accumulated state.
FinishIteration(ir, n) ==
    [Iteration |-> ir.Iteration,
     Score |-> Rat(ir.totalScore, n),
     Feedback |-> JoinFeedback(ir.feedbackParts),
     Pairs |-> ir.Pairs]

\* compareReviews for heldOut[idx]: one provider.Complete call and
\* parseComparisonResult; then the rest of runIteration's loop body and, after
\* the last sample, Run's bookkeeping up to the next backend call.
Compare ==
    /\ bpc = "compare"
    /\ calls' = [calls EXCEPT !.cmp = @ + 1]
    /\ \E reply \in {CompleteErr} \cup { CompleteOK(t) : t \in graderTexts } :
      \E c \in {compareReviews(reply)} :
        /\ cmpRaw' = IF reply.err THEN <<>> ELSE reply.text[1]
        /\ UNCHANGED <<refRaw, requests>>
        /\ comp' = c
        /\ IF reply.err
           THEN /\ failedCall' = TRUE
                /\ Fail("comparison")
           ELSE /\ failedCall' = failedCall
                /\ IF c.err # Nil
                   THEN Fail(Deref(c.err))
                   ELSE LET ho == heldOut[idx]
                            ir == [iterResult EXCEPT
                                     !.Pairs = Append(@, [Original |-> ho.Body,
                                                          Generated |-> generated,
                                                          Path |-> ho.Path,
                                                          Score |-> Deref(c.result).score]),
                                     !.totalScore = @ + Deref(c.result).score,
                                     !.feedbackParts = Append(@, Deref(c.result).feedback)]
                        IN IF idx < Len(heldOut)
                           THEN /\ iterResult' = ir
                                /\ idx' = idx + 1
                                /\ bpc' = "generate"
                                /\ UNCHANGED <<current, iter, generated, result, ret>>
                           ELSE LET done == FinishIteration(ir, Len(heldOut))
                                    res == [History |-> AppendHistory(result.History, done),
                                            FinalScore |-> done.Score,
                                            Iterations |-> iter]
                                IN /\ result' = res
                                   /\ UNCHANGED <<current, generated>>
                                   /\ IF TargetReached(done.Score)
                                      THEN /\ bpc' = "returned"
                                           /\ ret' = SuccessReturn(res, current)
                                           /\ UNCHANGED <<iter, idx, iterResult>>
                                      ELSE IF NeedsRefine(iter)
                                      THEN /\ bpc' = "refine"
                                           /\ iterResult' = ir
                                           /\ UNCHANGED <<iter, idx, ret>>
                                      ELSE LoopTop(iter + 1, res, current)
    /\ UNCHANGED <<heldOut, graderTexts, heap, heap0, persona>>
    /\ UNCHANGED notRun

\* A mutant of NextPersona: the refined persona is dropped.
NextPersonaDropped(refined) == current' = current

\* current = refined
NextPersona(refined) == current' = refined

\* refinePersona: one provider.Complete call and ParseSynthesis, whose
\* result is a new SynthesisResult; then the clone of `current` is made to
\* point to it, and the top of the next iteration follows.
Refine ==
    /\ bpc = "refine"
    /\ calls' = [calls EXCEPT !.ref = @ + 1]
    /\ \E reply \in {CompleteErr} \cup { CompleteOK(t) : t \in RefineTexts } :
        /\ refRaw' = reply.text
        /\ IF reply.err
           THEN /\ failedCall' = TRUE
                /\ Fail("refining persona")
                /\ heap' = heap
                /\ requests' = Append(requests, Request("refine", iter,
                                                        PersonaValue(heap, current), Nil))
           ELSE \E parsed \in {ParseSynthesis(reply.text[1])} :
                /\ failedCall' = failedCall
                /\ CASE parsed.outcome = "panic" ->
                          /\ bpc' = "panicked"
                          /\ requests' = Append(requests, Request("refine", iter,
                                                       PersonaValue(heap, current), Nil))
                          /\ UNCHANGED <<heap, current, iter, idx, generated, iterResult,
                                         result, ret>>
                     [] parsed.outcome = "err" ->
                          /\ Fail("parsing refined synthesis")
                          /\ heap' = heap
                          /\ requests' = Append(requests, Request("refine", iter,
                                                       PersonaValue(heap, current), Nil))
                     [] OTHER ->
                          \E synthesis \in {Append(heap, parsed.synthesis)} :
                          \E refined \in {clonePersona(synthesis, current)} :
                          \E after \in {[refined.heap EXCEPT
                                            ![refined.ptr].Synthesis = Ptr(Len(synthesis))]} :
                             /\ heap' = after
                             /\ requests' = Append(requests, Request("refine", iter,
                                                 PersonaValue(heap, current),
                                                 Ptr(PersonaValue(after, refined.ptr))))
                             /\ NextPersona(refined.ptr)
                             /\ LoopTop(iter + 1, result, current')
                             /\ UNCHANGED <<generated, result>>
    /\ UNCHANGED <<heldOut, graderTexts, heap0, persona, cmpRaw, comp>>
    /\ UNCHANGED notRun

RunNext == RunStart \/ Generate \/ Compare \/ Refine

----------------------------------------------------------------------------
\* package ghcrawl: rateLimitTransport.RoundTrip

maxRetries == 3

\* Header values are strings, kept as sequences of characters; <<>> is the
\* empty string, which is also what Header.Get gives for an absent header.
Digits == <<"0", "1", "2", "3", "4", "5", "6", "7", "8", "9">>
IsDigit(c) == \E d \in 1..10 : Digits[d] = c
DigitValue(c) == (CHOOSE d \in 1..10 : Digits[d] = c) - 1

RECURSIVE DecimalValue(_, _)
DecimalValue(cs, acc) ==
    IF cs = <<>> THEN acc ELSE DecimalValue(Tail(cs), 10 * acc + DigitValue(Head(cs)))

\* strconv.Atoi and strconv.ParseInt(s, 10, 64): an optional sign, then one
\* or more decimal digits; anything else is an error. (The values of the
\* model are far from the 64-bit range.)
Atoi(str) ==
    LET signed == str # <<>> /\ Head(str) \in {"+", "-"}
        ds == IF signed THEN Tail(str) ELSE str
    IN IF ds = <<>> \/ \E k \in 1..Len(ds) : ~IsDigit(ds[k])
       THEN [err |-> TRUE, val |-> 0]
       ELSE [err |-> FALSE,
             val |-> IF signed /\ Head(str) = "-" THEN 0 - DecimalValue(ds, 0)
                     ELSE DecimalValue(ds, 0)]

\* The clock when RoundTrip is entered.
StartTime == 1000

\* What the base transport can answer.
Statuses == {200, 403, 429}
RetryAfterValues ==
    { <<>>, <<"s", "o", "o", "n">>, <<"0">>, <<"-", "5">>, <<"2">>, <<"8", "9", "9">>,
      <<"9", "0", "0">> }
RemainingValues == { <<>>, <<"?">>, <<"9">>, <<"1", "0">>, <<"1", "1">> }
ResetValues ==
    { <<>>, <<"?">>, <<"1", "0", "0", "0">>, <<"1", "0", "6", "0">>,
      <<"1", "9", "0", "0">>, <<"2", "8", "0", "0">> }
Responses ==
    [StatusCode : Statuses, RetryAfter : RetryAfterValues,
     Remaining : RemainingValues, Reset : ResetValues]

FifteenMinutes == 15 * 60

IsRateLimited(resp) == resp.StatusCode = 403 \/ resp.StatusCode = 429

\* A mutant of ProactiveWait: the pause needs fewer than 10 requests left.
ProactiveWaitBelowTen(resp, t) ==
    IF resp.Remaining = <<>> THEN 0
    ELSE LET rem == Atoi(resp.Remaining) IN
         IF rem.err \/ ~(rem.val < 10) THEN 0
         ELSE LET reset == Atoi(resp.Reset) IN
              IF reset.err THEN 0
              ELSE LET wait == reset.val - t IN
                   IF wait > 0 /\ wait < FifteenMinutes THEN wait + 1 ELSE 0

\* The nested conditions under which RoundTrip pauses before returning a
\* response that is not rate-limited; t is the clock.
ProactiveWait(resp, t) ==
    IF resp.Remaining = <<>> THEN 0
    ELSE LET rem == Atoi(resp.Remaining) IN
         IF rem.err \/ ~(rem.val <= 10) THEN 0
         ELSE LET reset == Atoi(resp.Reset) IN
              IF reset.err THEN 0
              ELSE LET wait == reset.val - t IN
                   IF wait > 0 /\ wait < FifteenMinutes THEN wait + 1 ELSE 0


\* A mutant of RetryAfterUsable: no upper limit on the seconds.
RetryAfterUsableUnlimited(secs) == ~(secs.err \/ secs.val <= 0)

\* if parseErr != nil || secs <= 0 || secs >= 900 { return resp, nil }
RetryAfterUsable(secs) == ~(secs.err \/ secs.val <= 0 \/ secs.val >= 900)

\* A mutant of MoreAttempts: one attempt too many.
MoreAttemptsOffByOne(a) == a <= maxRetries

\* for attempt := range maxRetries
MoreAttempts(a) == a < maxRetries

\* A mutant of sleepContext: the context is not watched.
sleepContextDeaf(done) == "timer"

\* sleepContext: the case of the select that fires. Every duration slept is
\* at least one second, so the timer is never ready when the select is
\* entered: a context that is done by then, or becomes done before the timer
\* fires, wakes the select with ctx.Done(); otherwise the timer does.
sleepContext(done) == IF done THEN "ctx" ELSE "timer"

NoResponse == [resp |-> Nil, err |-> Nil]

RTInit ==
    /\ rtpc = "request"
    /\ attempt = 0
    /\ rtResp = Nil
    /\ rtSleep = 0
    /\ ctxDone \in BOOLEAN
    /\ now = StartTime
    /\ rtRet = NoResponse
    /\ rtLog = <<>>
    /\ rtRequests = 0
    /\ rtSlept = <<>>
    /\ cancelledIn = "none"

RTParked ==
    /\ rtpc = "parked"
    /\ attempt = 0
    /\ rtResp = Nil
    /\ rtSleep = 0
    /\ ctxDone = FALSE
    /\ now = StartTime
    /\ rtRet = NoResponse
    /\ rtLog = <<>>
    /\ rtRequests = 0
    /\ rtSlept = <<>>
    /\ cancelledIn = "none"

LogEntry(resp, closed) ==
    [StatusCode |-> resp.StatusCode, RetryAfter |-> resp.RetryAfter, closed |-> closed]

\* resp.Body.Close() on the response logged last; the mutation leaves the
\* body open.
BodyLeftOpen(log) == log
BodyClosed(log) == [log EXCEPT ![Len(log)].closed = TRUE]

\* One pass of the loop body, from base.RoundTrip to a return or to the
\* entry of a sleep.
RTRequest ==
    /\ rtpc = "request"
    /\ rtRequests' = rtRequests + 1
    /\ \/ \* base.RoundTrip fails
          /\ rtpc' = "returned"
          /\ rtRet' = [resp |-> Nil, err |-> Ptr("base transport error")]
          /\ UNCHANGED <<rtResp, rtSleep, rtLog>>
       \/ \E resp \in Responses :
            /\ rtResp' = Ptr(resp)
            /\ IF ~IsRateLimited(resp)
               THEN IF ProactiveWait(resp, now) > 0
                    THEN /\ rtpc' = "proactiveSleep"
                         /\ rtSleep' = ProactiveWait(resp, now)
                         /\ rtLog' = Append(rtLog, LogEntry(resp, FALSE))
                         /\ rtRet' = rtRet
                    ELSE /\ rtpc' = "returned"
                         /\ rtRet' = [resp |-> Ptr(resp), err |-> Nil]
                         /\ rtLog' = Append(rtLog, LogEntry(resp, FALSE))
                         /\ rtSleep' = rtSleep
               ELSE IF ~RetryAfterUsable(Atoi(resp.RetryAfter))
                    THEN /\ rtpc' = "returned"
                         /\ rtRet' = [resp |-> Ptr(resp), err |-> Nil]
                         /\ rtLog' = Append(rtLog, LogEntry(resp, FALSE))
                         /\ rtSleep' = rtSleep
                    ELSE /\ rtpc' = "retrySleep"
                         /\ rtSleep' = Atoi(resp.RetryAfter).val
                         /\ rtLog' = Append(rtLog, LogEntry(resp, TRUE))
                         /\ rtRet' = rtRet
    /\ UNCHANGED <<attempt, ctxDone, now, rtSlept, cancelledIn>>
    /\ UNCHANGED notRT

\* The caller cancels the request's context.
RTCancel ==
    /\ rtpc \in {"request", "retrySleep", "proactiveSleep"}
    /\ ~ctxDone
    /\ ctxDone' = TRUE
    /\ cancelledIn' = IF rtpc = "request" THEN cancelledIn ELSE rtpc
    /\ UNCHANGED <<rtpc, attempt, rtResp, rtSleep, now, rtRet, rtLog, rtRequests, rtSlept>>
    /\ UNCHANGED notRT

\* sleepContext returns in the retry branch; then the end of the loop body.
RTRetryWake ==
    /\ rtpc = "retrySleep"
    /\ IF sleepContext(ctxDone) = "ctx"
       THEN /\ rtpc' = "returned"
            /\ rtRet' = [resp |-> Nil, err |-> Ptr("context canceled")]
            /\ UNCHANGED <<attempt, now, rtSlept>>
       ELSE /\ now' = now + rtSleep
            /\ rtSlept' = Append(rtSlept, rtSleep)
            /\ attempt' = attempt + 1
            /\ IF MoreAttempts(attempt + 1)
               THEN /\ rtpc' = "request"
                    /\ rtRet' = rtRet
               ELSE /\ rtpc' = "returned"
                    /\ rtRet' = [resp |-> Nil, err |-> Ptr("retries exhausted")]
    /\ UNCHANGED <<rtResp, rtSleep, ctxDone, rtLog, rtRequests, cancelledIn>>
    /\ UNCHANGED notRT

\* sleepContext returns in the proactive branch; then RoundTrip returns.
RTProactiveWake ==
    /\ rtpc = "proactiveSleep"
    /\ rtpc' = "returned"
    /\ IF sleepContext(ctxDone) = "ctx"
       THEN /\ rtLog' = BodyClosed(rtLog)
            /\ rtRet' = [resp |-> Nil, err |-> Ptr("context canceled")]
            /\ UNCHANGED <<now, rtSlept>>
       ELSE /\ now' = now + rtSleep
            /\ rtSlept' = Append(rtSlept, rtSleep)
            /\ rtRet' = [resp |-> rtResp, err |-> Nil]
            /\ rtLog' = rtLog
    /\ UNCHANGED <<attempt, rtResp, rtSleep, ctxDone, rtRequests, cancelledIn>>
    /\ UNCHANGED notRT

RTNext == RTRequest \/ RTCancel \/ RTRetryWake \/ RTProactiveWake

----------------------------------------------------------------------------
\* Crawler.Crawl: the repositories GitHub lists and the selection for deep crawl

\* The user Crawl is called for.
username == "dev"

\* strings.ToLower over the logins of the model.
ToLower(s) == IF s = "Dev" THEN "dev" ELSE s

EqualFold(a, b) == ToLower(a) = ToLower(b)

\* The i-th repository GitHub lists for the user, most recently pushed first.
\* Every third one belongs to somebody else; the logins differ in case from
\* the user name; languages, creation dates and stars vary.
Repository(i) ==
    [FullName |-> <<"repo", i>>,
     Owner |-> IF i % 3 = 1 THEN "other" ELSE "Dev",
     Fork |-> i % 4 = 0,
     Language |-> IF i % 2 = 0 THEN "Go" ELSE "",
     CreatedAt |-> (i * 2) % 3,
     Stars |-> i % 2]

\* The outcomes of sort.Slice(unselected, ...) by creation date, oldest
\* first: every order of the indices S without an inversion; repositories
\* that compare equal may come out in any order.
RECURSIVE SortedByCreatedAt(_, _)
SortedByCreatedAt(repos, S) ==
    IF S = {} THEN {<<>>}
    ELSE UNION {{<<x>> \o p : p \in SortedByCreatedAt(repos, S \ {x})} :
            x \in {y \in S : \A z \in S : ~(repos[z].CreatedAt < repos[y].CreatedAt)}}

\* The outcomes of sort.Slice(forks, ...) by stars, most starred first.
RECURSIVE SortedByStars(_, _)
SortedByStars(repos, S) ==
    IF S = {} THEN {<<>>}
    ELSE UNION {{<<x>> \o p : p \in SortedByStars(repos, S \ {x})} :
            x \in {y \in S : \A z \in S : ~(repos[z].Stars > repos[y].Stars)}}

\* The indices of S in ascending order.
RECURSIVE Ascending(_)
Ascending(S) ==
    IF S = {} THEN <<>>
    ELSE LET x == CHOOSE y \in S : \A z \in S : y <= z IN <<x>> \o Ascending(S \ {x})

IsOwned(r, user) == ~r.Fork /\ EqualFold(r.Owner, user)

LanguageKey(r) == IF r.Language = "" THEN "_none" ELSE r.Language

\* langGroups: the indices of the owned repositories by primary language.
LangGroups(repos, user) ==
    LET owned == {i \in 1..Len(repos) : IsOwned(repos[i], user)} IN
    [l \in {LanguageKey(repos[i]) : i \in owned} |->
        Ascending({i \in owned : LanguageKey(repos[i]) = l})]

\* A mutant of LangBudget: one repository, whatever the budget.
LangBudgetOne(maxRepos) == 1
\* langBudget := maxRepos / 2, at least 1
LangBudget(maxRepos) == IF maxRepos \div 2 < 1 THEN 1 ELSE maxRepos \div 2

\* The round-robin over the language groups from round `round` on. A Go map
\* is ranged over in an unspecified order, so when the budget runs out in the
\* middle of a round any of the groups may have been served.
RECURSIVE LangRounds(_, _, _, _)
LangRounds(groups, budget, round, selected) ==
    IF Cardinality(selected) >= budget THEN {selected}
    ELSE LET cand == {groups[l][round + 1] :
                        l \in {k \in DOMAIN groups : round < Len(groups[k])}}
             need == budget - Cardinality(selected)
         IN  IF cand = {} THEN {selected}
             ELSE IF Cardinality(cand) <= need
                  THEN LangRounds(groups, budget, round + 1, selected \cup cand)
                  ELSE {selected \cup T : T \in {U \in SUBSET cand : Cardinality(U) = need}}

\* The picks of `for i := 0; i < len(unselected) && len(selected) < maxRepos; i += step`.
RECURSIVE SpacedPicks(_, _, _, _, _)
SpacedPicks(order, i, step, maxRepos, selected) ==
    IF i < Len(order) /\ Cardinality(selected) < maxRepos
    THEN SpacedPicks(order, i + step, step, maxRepos, selected \cup {order[i + 1]})
    ELSE selected

\* A mutant of TemporalFill: the phase is skipped.
TemporalFillSkipped(repos, maxRepos, user, selected) == {selected}
\* Temporal fill: the unselected owned repositories, oldest first, evenly spaced.
TemporalFill(repos, maxRepos, user, selected) ==
    LET unselected == {i \in 1..Len(repos) : i \notin selected /\ IsOwned(repos[i], user)}
        remaining == maxRepos - Cardinality(selected)
        step == IF Cardinality(unselected) \div remaining < 1 THEN 1
                ELSE Cardinality(unselected) \div remaining
    IN  IF remaining > 0 /\ unselected # {}
        THEN {SpacedPicks(order, 0, step, maxRepos, selected) :
                order \in SortedByCreatedAt(repos, unselected)}
        ELSE {selected}

\* A mutant of TakeUntilFull: the budget is not looked at.
TakeAll(order, k, maxRepos, selected) == selected \cup {order[i] : i \in k..Len(order)}
\* The picks of `for _, i := range forks` until the budget is used.
RECURSIVE TakeUntilFull(_, _, _, _)
TakeUntilFull(order, k, maxRepos, selected) ==
    IF k > Len(order) \/ Cardinality(selected) >= maxRepos THEN selected
    ELSE TakeUntilFull(order, k + 1, maxRepos, selected \cup {order[k]})

\* Fork fill: forks and other people's repositories, most starred first.
ForkFill(repos, maxRepos, user, selected) ==
    LET forks == {i \in 1..Len(repos) : i \notin selected /\ ~IsOwned(repos[i], user)}
    IN  IF Cardinality(selected) < maxRepos
        THEN {TakeUntilFull(order, 1, maxRepos, selected) :
                order \in SortedByStars(repos, forks)}
        ELSE {selected}

\* The selected repositories in listing order.
SelectedRepos(repos, selected) ==
    LET order == Ascending(selected) IN [k \in 1..Len(order) |-> repos[order[k]]]

\* The three phases of selectDiverseRepos on a list longer than the budget:
\* the index sets the language phase, then the temporal fill, then the fork
\* fill may leave selected.
DiverseSelections(repos, maxRepos, user) ==
    UNION {UNION {{[language |-> s1, temporal |-> s2, selected |-> s3] :
                    s3 \in ForkFill(repos, maxRepos, user, s2)} :
                s2 \in TemporalFill(repos, maxRepos, user, s1)} :
        s1 \in LangRounds(LangGroups(repos, user), LangBudget(maxRepos), 0, {})}

\* A mutant of ReturnedAsIs: forks are dropped from a short list.
ReturnedWithoutForks(repos) == SelectSeq(repos, LAMBDA r : ~r.Fork)
\* return repos
ReturnedAsIs(repos) == repos

\* selectDiverseRepos: the set of the slices the call may return.
selectDiverseRepos(repos, maxRepos, user) ==
    IF Len(repos) <= maxRepos THEN {ReturnedAsIs(repos)}
    ELSE {SelectedRepos(repos, r.selected) : r \in DiverseSelections(repos, maxRepos, user)}

----------------------------------------------------------------------------
\* selectDiverseRepos called on its own

\* The repositories a listing is made of: owned ones in three languages and
\* of two ages, a fork of the user's, somebody else's repository.
RepositoryKinds ==
    {[Owner |-> "Dev", Fork |-> FALSE, Language |-> "", CreatedAt |-> 1, Stars |-> 0],
     [Owner |-> "Dev", Fork |-> FALSE, Language |-> "Go", CreatedAt |-> 1, Stars |-> 0],
     [Owner |-> "dev", Fork |-> FALSE, Language |-> "Go", CreatedAt |-> 2, Stars |-> 0],
     [Owner |-> "dev", Fork |-> FALSE, Language |-> "Rust", CreatedAt |-> 2, Stars |-> 0],
     [Owner |-> "dev", Fork |-> TRUE, Language |-> "Go", CreatedAt |-> 1, Stars |-> 0],
     [Owner |-> "other", Fork |-> FALSE, Language |-> "Go", CreatedAt |-> 1, Stars |-> 1]}

\* The i-th repository of a listing, of kind k.
RepositoryOfKind(i, k) ==
    [FullName |-> <<"repo", i>>, Owner |-> k.Owner, Fork |-> k.Fork,
     Language |-> k.Language, CreatedAt |-> k.CreatedAt, Stars |-> k.Stars]

SelectInit ==
    /\ selpc = "call"
    /\ \E n \in 0..MaxSelectRepos : \E f \in [1..n -> RepositoryKinds] :
        selRepos = [i \in 1..n |-> RepositoryOfKind(i, f[i])]
    /\ selMax \in 1..MaxSelectBudget
    /\ selLang = {}
    /\ selOwned = {}
    /\ selOut = <<>>

SelectParked ==
    /\ selpc = "parked"
    /\ selRepos = <<>>
    /\ selMax = 1
    /\ selLang = {}
    /\ selOwned = {}
    /\ selOut = <<>>

\* selectDiverseRepos(selRepos, selMax, username), with the indices chosen
\* by the language phase and by the language and temporal phases together.
SelectCall ==
    /\ selpc = "call"
    /\ selpc' = "done"
    /\ IF Len(selRepos) <= selMax
       THEN /\ selOut' \in selectDiverseRepos(selRepos, selMax, username)
            /\ UNCHANGED <<selLang, selOwned>>
       ELSE \E r \in DiverseSelections(selRepos, selMax, username) :
            /\ selLang' = r.language
            /\ selOwned' = r.temporal
            /\ selOut' = SelectedRepos(selRepos, r.selected)
    /\ UNCHANGED <<selRepos, selMax>>
    /\ UNCHANGED notSelect

SelectNext == SelectCall

----------------------------------------------------------------------------
\* Crawler.Crawl: the orchestrator

crawlConcurrency == 5

\* The data sources of phase B, one goroutine each.
PhaseBFetchers ==
    {"IssueComments", "StarredRepos", "Gists", "Orgs", "Events", "AuthoredIssues",
     "ExternalPRs"}

\* context.Canceled
Canceled == "context canceled"

\* What a call to the GitHub API can come to: under a cancelled context it
\* fails with the context's error, otherwise it succeeds or fails.
FetchOutcomes(done) == IF done THEN {Canceled} ELSE {"ok", "api error"}

\* The zero CrawlResult.
EmptyCrawlResult ==
    [User |-> Nil, Repos |-> <<>>, IssueComments |-> <<>>, StarredRepos |-> <<>>,
     Gists |-> <<>>, Orgs |-> <<>>, Events |-> <<>>, AuthoredIssues |-> <<>>,
     ExternalPRs |-> <<>>]

\* What a phase-B fetcher returns on success.
Fetched(f) == <<f>>

\* The RepoData Crawl builds from a listed repository; commits is what the
\* nested fetches of a deep crawl brought, <<>> for a metadata-only record.
RepoData(repo, user, commits) ==
    [FullName |-> repo.FullName,
     Language |-> repo.Language,
     Stars |-> repo.Stars,
     IsOwner |-> EqualFold(repo.Owner, user),
     IsFork |-> repo.Fork,
     Commits |-> commits]

\* crawlRepo: the (rd, err) pair the call returns. The nested fetches keep
\* their errors to themselves: under a cancelled context they bring nothing,
\* and err is nil all the same.
crawlRepo(done, user, repo) ==
    [rd |-> RepoData(repo, user, IF done THEN <<>> ELSE <<"commit">>), err |-> Nil]

\* Metadata-only records for repos[c.maxRepos:].
ShallowRepos(repos, maxRepos, user) ==
    IF Len(repos) > maxRepos
    THEN [k \in 1..(Len(repos) - maxRepos) |-> RepoData(repos[maxRepos + k], user, <<>>)]
    ELSE <<>>

\* A repository outside the listing in which the user reviewed.
ExternalRepoData ==
    [FullName |-> <<"ext", 1>>, Language |-> "", Stars |-> 0, IsOwner |-> FALSE,
     IsFork |-> FALSE, Commits |-> <<>>]

\* fetchExternalReviews: the (extRepos, err) pairs the call may return;
\* repositories already in crawledRepos are left out.
fetchExternalReviews(done, crawled) ==
    IF done THEN {[extRepos |-> <<>>, err |-> Ptr(Canceled)]}
    ELSE {[extRepos |-> <<>>, err |-> Ptr("api error")],
          [extRepos |-> <<>>, err |-> Nil],
          [extRepos |-> SelectSeq(<<ExternalRepoData>>,
                                  LAMBDA r : r.FullName \notin crawled),
           err |-> Nil]}

\* What a phase-A goroutine returns to its errgroup: nil, whatever crawlRepo said.
PhaseATaskReturn(err) == Nil

\* A mutant of PhaseBTaskReturn: the goroutine hands the error to the group.
PhaseBTaskReturnsError(err) == err
\* What a phase-B goroutine returns to its errgroup: nil, whatever the fetcher said.
PhaseBTaskReturn(err) == Nil

\* errgroup: the group keeps the first non-nil error a goroutine returns ...
GroupErr(gerr, err) == IF err # Nil /\ gerr = Nil THEN err ELSE gerr
\* ... and cancels the group's context on it.
GroupCancelled(cancelled, err) == cancelled \/ err # Nil

\* ctx.Done() is closed
CrawlCtxDone == cCancelledAt # "none"
\* gCtx and gCtx2 are done when the group cancelled them or ctx is done.
GCtxDone == gCancelled \/ CrawlCtxDone
GCtx2Done == g2Cancelled \/ CrawlCtxDone

Returns(res, err) == [result |-> res, err |-> err]

\* fmt.Errorf("fetching profile: %w", err)
ProfileError(err) == Ptr(<<"fetching profile", err>>)

\* A mutant of ListingError: the failure of the listing is not reported.
ListingErrorDropped(err) == Nil
\* fmt.Errorf("listing repos: %w", err)
ListingError(err) == Ptr(<<"listing repos", err>>)

CrawlInit ==
    /\ cpc = "profile"
    /\ cMaxRepos \in 1..MaxDeepCrawl
    /\ crawledRepos = {}
    /\ \E k \in 0..MaxListed : listing = [i \in 1..k |-> Repository(i)]
    /\ cRepos = <<>>
    /\ deepCrawl = <<>>
    /\ spawnedA = 0
    /\ taskA = <<>>
    /\ rdA = <<>>
    /\ mu = FALSE
    /\ gCancelled = FALSE
    /\ gErr = Nil
    /\ g2Cancelled = FALSE
    /\ g2Err = Nil
    /\ taskB = [f \in PhaseBFetchers |-> "idle"]
    /\ cResult = EmptyCrawlResult
    /\ cRet = Returns(Nil, Nil)
    /\ cCancelledAt = "none"
    /\ cFetched = {}
    /\ cFailed = {}

CrawlParked ==
    /\ cpc = "parked"
    /\ cMaxRepos = 1
    /\ crawledRepos = {}
    /\ listing = <<>>
    /\ cRepos = <<>>
    /\ deepCrawl = <<>>
    /\ spawnedA = 0
    /\ taskA = <<>>
    /\ rdA = <<>>
    /\ mu = FALSE
    /\ gCancelled = FALSE
    /\ gErr = Nil
    /\ g2Cancelled = FALSE
    /\ g2Err = Nil
    /\ taskB = [f \in PhaseBFetchers |-> "idle"]
    /\ cResult = EmptyCrawlResult
    /\ cRet = Returns(Nil, Nil)
    /\ cCancelledAt = "none"
    /\ cFetched = {}
    /\ cFailed = {}

\* The caller cancels ctx while Crawl runs.
CrawlCancel ==
    /\ cpc \notin {"parked", "returned"}
    /\ cCancelledAt = "none"
    /\ cCancelledAt' = cpc
    /\ UNCHANGED <<cpc, cMaxRepos, crawledRepos, listing, cRepos, deepCrawl, spawnedA, taskA, rdA, mu,
                   gCancelled, gErr, g2Cancelled, g2Err, taskB, cResult, cRet,
                   cFetched, cFailed>>
    /\ UNCHANGED notCrawl

\* profile, err := c.fetchProfile(ctx, username)
CrawlProfile ==
    /\ cpc = "profile"
    /\ cFetched' = cFetched \cup {"profile"}
    /\ \E out \in FetchOutcomes(CrawlCtxDone) :
        IF out # "ok"
        THEN /\ cRet' = Returns(Nil, ProfileError(out))
             /\ cpc' = "returned"
             /\ cFailed' = cFailed \cup {"profile"}
             /\ UNCHANGED cResult
        ELSE /\ cResult' = [cResult EXCEPT !.User = Ptr([Login |-> username, ProfileREADME |-> ""])]
             /\ cpc' = "readme"
             /\ UNCHANGED <<cRet, cFailed>>
    /\ UNCHANGED <<cMaxRepos, crawledRepos, listing, cRepos, deepCrawl, spawnedA, taskA, rdA, mu,
                   gCancelled, gErr, g2Cancelled, g2Err, taskB, cCancelledAt>>
    /\ UNCHANGED notCrawl

\* readme, err := c.fetchProfileREADME(ctx, username)
CrawlReadme ==
    /\ cpc = "readme"
    /\ cFetched' = cFetched \cup {"readme"}
    /\ \E out \in FetchOutcomes(CrawlCtxDone) :
        IF out # "ok"
        THEN /\ cFailed' = cFailed \cup {"readme"}
             /\ UNCHANGED cResult
        ELSE /\ cResult' = [cResult EXCEPT !.User = Ptr([Deref(@) EXCEPT !.ProfileREADME = "readme"])]
             /\ UNCHANGED cFailed
    /\ cpc' = "repos"
    /\ UNCHANGED <<cMaxRepos, crawledRepos, listing, cRepos, deepCrawl, spawnedA, taskA, rdA, mu,
                   gCancelled, gErr, g2Cancelled, g2Err, taskB, cRet, cCancelledAt>>
    /\ UNCHANGED notCrawl

\* repos, err := c.fetchRepos(ctx, username), then selectDiverseRepos and
\* errgroup.WithContext
CrawlRepos ==
    /\ cpc = "repos"
    /\ cFetched' = cFetched \cup {"repos"}
    /\ \E out \in FetchOutcomes(CrawlCtxDone) :
        IF out # "ok"
        THEN /\ cRet' = Returns(Nil, ListingError(out))
             /\ cpc' = "returned"
             /\ cFailed' = cFailed \cup {"repos"}
             /\ UNCHANGED <<cRepos, deepCrawl, taskA, rdA>>
        ELSE /\ cRepos' = listing
             /\ deepCrawl' \in selectDiverseRepos(listing, cMaxRepos, username)
             /\ taskA' = [i \in 1..Len(deepCrawl') |-> "idle"]
             /\ rdA' = [i \in 1..Len(deepCrawl') |-> Nil]
             /\ cpc' = "phaseA"
             /\ UNCHANGED <<cRet, cFailed>>
    /\ UNCHANGED <<cMaxRepos, crawledRepos, listing, spawnedA, mu, gCancelled, gErr, g2Cancelled,
                   g2Err, taskB, cResult, cCancelledAt>>
    /\ UNCHANGED notCrawl

\* Phase-A goroutines that hold a slot of the group's limit.
RunningA == {i \in 1..Len(taskA) : taskA[i] \in {"running", "waitLock", "locked"}}

\* A mutant of LimitAllows: the group has no limit.
LimitAllowsAlways(active) == TRUE

\* g.SetLimit(crawlConcurrency): g.Go starts a goroutine when fewer than
\* crawlConcurrency goroutines of the group are active.
LimitAllows(active) == active < crawlConcurrency

\* g.Go(func() error {...}) for the next repository of deepCrawl; blocks
\* while crawlConcurrency goroutines of the group are active.
GoA ==
    /\ cpc = "phaseA"
    /\ spawnedA < Len(deepCrawl)
    /\ LimitAllows(Cardinality(RunningA))
    /\ spawnedA' = spawnedA + 1
    /\ taskA' = [taskA EXCEPT ![spawnedA + 1] = "running"]
    /\ UNCHANGED <<cpc, cMaxRepos, crawledRepos, listing, cRepos, deepCrawl, rdA, mu, gCancelled, gErr,
                   g2Cancelled, g2Err, taskB, cResult, cRet, cCancelledAt, cFetched,
                   cFailed>>
    /\ UNCHANGED notCrawl

\* rd, err := c.crawlRepo(gCtx, username, repo) in goroutine i; on an error
\* the goroutine logs and returns.
CrawlRepoA(i) ==
    /\ cpc = "phaseA"
    /\ i <= Len(taskA)
    /\ taskA[i] = "running"
    /\ cFetched' = cFetched \cup {"crawlRepo"}
    /\ LET r == crawlRepo(GCtxDone, username, deepCrawl[i]) IN
        IF r.err # Nil
        THEN /\ taskA' = [taskA EXCEPT ![i] = "done"]
             /\ gErr' = GroupErr(gErr, PhaseATaskReturn(r.err))
             /\ gCancelled' = GroupCancelled(gCancelled, PhaseATaskReturn(r.err))
             /\ cFailed' = cFailed \cup {"crawlRepo"}
             /\ UNCHANGED rdA
        ELSE /\ taskA' = [taskA EXCEPT ![i] = "waitLock"]
             /\ rdA' = [rdA EXCEPT ![i] = Ptr(r.rd)]
             /\ UNCHANGED <<gErr, gCancelled, cFailed>>
    /\ UNCHANGED <<cpc, cMaxRepos, crawledRepos, listing, cRepos, deepCrawl, spawnedA, mu, g2Cancelled,
                   g2Err, taskB, cResult, cRet, cCancelledAt>>
    /\ UNCHANGED notCrawl

\* A mutant of MutexFree: Lock never waits.
MutexFreeAlways(locked) == TRUE

\* mu.Lock() returns when the mutex is not locked.
MutexFree(locked) == ~locked

\* mu.Lock() in goroutine i of phase A
LockA(i) ==
    /\ cpc = "phaseA"
    /\ i <= Len(taskA)
    /\ taskA[i] = "waitLock"
    /\ MutexFree(mu)
    /\ mu' = TRUE
    /\ taskA' = [taskA EXCEPT ![i] = "locked"]
    /\ UNCHANGED <<cpc, cMaxRepos, crawledRepos, listing, cRepos, deepCrawl, spawnedA, rdA, gCancelled,
                   gErr, g2Cancelled, g2Err, taskB, cResult, cRet, cCancelledAt, cFetched,
                   cFailed>>
    /\ UNCHANGED notCrawl

\* result.Repos = append(result.Repos, rd); mu.Unlock(); return nil
AppendA(i) ==
    /\ cpc = "phaseA"
    /\ i <= Len(taskA)
    /\ taskA[i] = "locked"
    /\ cResult' = [cResult EXCEPT !.Repos = Append(@, Deref(rdA[i]))]
    /\ mu' = FALSE
    /\ taskA' = [taskA EXCEPT ![i] = "done"]
    /\ gErr' = GroupErr(gErr, PhaseATaskReturn(Nil))
    /\ gCancelled' = GroupCancelled(gCancelled, PhaseATaskReturn(Nil))
    /\ UNCHANGED <<cpc, cMaxRepos, crawledRepos, listing, cRepos, deepCrawl, spawnedA, rdA, g2Cancelled,
                   g2Err, taskB, cRet, cCancelledAt, cFetched, cFailed>>
    /\ UNCHANGED notCrawl

\* A mutant of WaitReturns: Wait does not wait.
WaitReturnsAtOnce(tasks) == TRUE

\* g.Wait() blocks until every goroutine of the group has returned.
WaitReturns(tasks) == \A i \in 1..Len(tasks) : tasks[i] = "done"

\* g.Wait() returns once every goroutine of phase A is done; on a nil error
\* Crawl appends the metadata-only records of repos[c.maxRepos:].
WaitA ==
    /\ cpc = "phaseA"
    /\ spawnedA = Len(deepCrawl)
    /\ WaitReturns(taskA)
    /\ gCancelled' = TRUE
    /\ IF gErr # Nil
       THEN /\ cRet' = Returns(Nil, gErr)
            /\ cpc' = "returned"
            /\ UNCHANGED cResult
       ELSE /\ cResult' = [cResult EXCEPT !.Repos = @ \o ShallowRepos(cRepos, cMaxRepos, username)]
            /\ cpc' = "externalReviews"
            /\ UNCHANGED cRet
    /\ UNCHANGED <<cMaxRepos, crawledRepos, listing, cRepos, deepCrawl, spawnedA, taskA, rdA, mu, gErr,
                   g2Cancelled, g2Err, taskB, cCancelledAt, cFetched, cFailed>>
    /\ UNCHANGED notCrawl

\* extRepos, err := c.fetchExternalReviews(ctx, username, crawledRepos), then
\* errgroup.WithContext and the seven g2.Go calls, which do not block.
CrawlExternalReviews ==
    /\ cpc = "externalReviews"
    /\ cFetched' = cFetched \cup {"externalReviews"}
    /\ crawledRepos' = {cResult.Repos[k].FullName : k \in 1..Len(cResult.Repos)}
    /\ \E r \in fetchExternalReviews(CrawlCtxDone, crawledRepos') :
        IF r.err # Nil
        THEN /\ cFailed' = cFailed \cup {"externalReviews"}
             /\ UNCHANGED cResult
        ELSE /\ cResult' = IF Len(r.extRepos) > 0
                           THEN [cResult EXCEPT !.Repos = @ \o r.extRepos]
                           ELSE cResult
             /\ UNCHANGED cFailed
    /\ taskB' = [f \in PhaseBFetchers |-> "running"]
    /\ cpc' = "phaseB"
    /\ UNCHANGED <<cMaxRepos, listing, cRepos, deepCrawl, spawnedA, taskA, rdA, mu,
                   gCancelled, gErr, g2Cancelled, g2Err, cRet, cCancelledAt>>
    /\ UNCHANGED notCrawl

\* The goroutine of source f, from its start to its return:
\* x, err := c.fetchX(gCtx2, username); on an error it logs, otherwise
\* mu.Lock(); result.X = x; mu.Unlock(); in both cases it returns nil.
\* Between the fetch and the assignment the goroutine touches nothing but
\* its own locals, and the assignment is made under the mutex, so the body
\* is one step.
FetchB(f) ==
    /\ cpc = "phaseB"
    /\ taskB[f] = "running"
    /\ cFetched' = cFetched \cup {f}
    /\ \E out \in FetchOutcomes(GCtx2Done) :
        IF out # "ok"
        THEN /\ g2Err' = GroupErr(g2Err, PhaseBTaskReturn(Ptr(out)))
             /\ g2Cancelled' = GroupCancelled(g2Cancelled, PhaseBTaskReturn(Ptr(out)))
             /\ cFailed' = cFailed \cup {f}
             /\ UNCHANGED cResult
        ELSE /\ ~mu
             /\ cResult' = [cResult EXCEPT ![f] = Fetched(f)]
             /\ g2Err' = GroupErr(g2Err, PhaseBTaskReturn(Nil))
             /\ g2Cancelled' = GroupCancelled(g2Cancelled, PhaseBTaskReturn(Nil))
             /\ UNCHANGED cFailed
    /\ taskB' = [taskB EXCEPT ![f] = "done"]
    /\ UNCHANGED <<cpc, cMaxRepos, crawledRepos, listing, cRepos, deepCrawl, spawnedA, taskA, rdA, mu,
                   gCancelled, gErr, cRet, cCancelledAt>>
    /\ UNCHANGED notCrawl

\* The goroutine of source f in steps, as the goroutines of phase A are.
\* x, err := c.fetchX(gCtx2, username) returns; on an error the goroutine
\* logs and returns nil.
FetchReturnsB(f) ==
    /\ cpc = "phaseB"
    /\ taskB[f] = "running"
    /\ cFetched' = cFetched \cup {f}
    /\ \E out \in FetchOutcomes(GCtx2Done) :
        IF out # "ok"
        THEN /\ g2Err' = GroupErr(g2Err, PhaseBTaskReturn(Ptr(out)))
             /\ g2Cancelled' = GroupCancelled(g2Cancelled, PhaseBTaskReturn(Ptr(out)))
             /\ cFailed' = cFailed \cup {f}
             /\ taskB' = [taskB EXCEPT ![f] = "done"]
        ELSE /\ taskB' = [taskB EXCEPT ![f] = "waitLock"]
             /\ UNCHANGED <<g2Err, g2Cancelled, cFailed>>
    /\ UNCHANGED <<cpc, cMaxRepos, crawledRepos, listing, cRepos, deepCrawl, spawnedA, taskA, rdA, mu,
                   gCancelled, gErr, cResult, cRet, cCancelledAt>>
    /\ UNCHANGED notCrawl

\* mu.Lock() in the goroutine of source f
LockB(f) ==
    /\ cpc = "phaseB"
    /\ taskB[f] = "waitLock"
    /\ MutexFree(mu)
    /\ mu' = TRUE
    /\ taskB' = [taskB EXCEPT ![f] = "locked"]
    /\ UNCHANGED <<cpc, cMaxRepos, crawledRepos, listing, cRepos, deepCrawl, spawnedA, taskA, rdA,
                   gCancelled, gErr, g2Cancelled, g2Err, cResult, cRet, cCancelledAt,
                   cFetched, cFailed>>
    /\ UNCHANGED notCrawl

\* result.X = x; mu.Unlock(); return nil
AssignB(f) ==
    /\ cpc = "phaseB"
    /\ taskB[f] = "locked"
    /\ cResult' = [cResult EXCEPT ![f] = Fetched(f)]
    /\ mu' = FALSE
    /\ taskB' = [taskB EXCEPT ![f] = "done"]
    /\ g2Err' = GroupErr(g2Err, PhaseBTaskReturn(Nil))
    /\ g2Cancelled' = GroupCancelled(g2Cancelled, PhaseBTaskReturn(Nil))
    /\ UNCHANGED <<cpc, cMaxRepos, crawledRepos, listing, cRepos, deepCrawl, spawnedA, taskA, rdA,
                   gCancelled, gErr, cRet, cCancelledAt, cFetched, cFailed>>
    /\ UNCHANGED notCrawl

\* g2.Wait() returns once every goroutine of phase B is done; Crawl returns.
WaitB ==
    /\ cpc = "phaseB"
    /\ \A f \in PhaseBFetchers : taskB[f] = "done"
    /\ g2Cancelled' = TRUE
    /\ cRet' = IF g2Err # Nil THEN Returns(Nil, g2Err) ELSE Returns(Ptr(cResult), Nil)
    /\ cpc' = "returned"
    /\ UNCHANGED <<cMaxRepos, crawledRepos, listing, cRepos, deepCrawl, spawnedA, taskA, rdA, mu,
                   gCancelled, gErr, g2Err, taskB, cResult, cCancelledAt, cFetched, cFailed>>
    /\ UNCHANGED notCrawl

\* The listings of the model, by length.
Listing(k) == [i \in 1..k |-> Repository(i)]

\* Crawl at the start of phase A, after the profile, the README and the
\* listing were fetched: the state CrawlRepos leaves.
AtPhaseA(maxRepos, repos) ==
    /\ cpc = "phaseA"
    /\ cMaxRepos = maxRepos
    /\ crawledRepos = {}
    /\ listing = repos
    /\ cRepos = repos
    /\ deepCrawl \in selectDiverseRepos(repos, maxRepos, username)
    /\ spawnedA = 0
    /\ taskA = [i \in 1..Len(deepCrawl) |-> "idle"]
    /\ rdA = [i \in 1..Len(deepCrawl) |-> Nil]
    /\ mu = FALSE
    /\ gCancelled = FALSE
    /\ gErr = Nil
    /\ g2Cancelled = FALSE
    /\ g2Err = Nil
    /\ taskB = [f \in PhaseBFetchers |-> "idle"]
    /\ cResult = [EmptyCrawlResult EXCEPT
                    !.User = Ptr([Login |-> username, ProfileREADME |-> "readme"])]
    /\ cRet = Returns(Nil, Nil)
    /\ cCancelledAt = "none"
    /\ cFetched = {"profile", "readme", "repos"}
    /\ cFailed = {}

\* Phase A on its own, with more repositories to crawl than the group's
\* limit: every listed repository is selected.
PhaseAInit == \E k \in 0..MaxPhaseATasks : AtPhaseA(MaxPhaseATasks, Listing(k))

\* The steps of phase A. The caller's cancellation is left to the
\* specification of the whole of Crawl: neither g.Go nor the goroutines'
\* locking looks at the context.
PhaseANext ==
    \/ GoA
    \/ \E i \in 1..MaxPhaseATasks : CrawlRepoA(i)
    \/ \E i \in 1..MaxPhaseATasks : LockA(i)
    \/ \E i \in 1..MaxPhaseATasks : AppendA(i)
    \/ WaitA

\* Crawl from phase A on with every goroutine of both phases in steps, for
\* a listing of MaxLockRepos repositories that is crawled deep as a whole.
LocksInit == AtPhaseA(MaxLockRepos, Listing(MaxLockRepos))

\* The steps of the two phases; the caller's cancellation is left out as in
\* PhaseANext.
LocksNext ==
    \/ GoA
    \/ \E i \in 1..MaxLockRepos : CrawlRepoA(i)
    \/ \E i \in 1..MaxLockRepos : LockA(i)
    \/ \E i \in 1..MaxLockRepos : AppendA(i)
    \/ WaitA
    \/ CrawlExternalReviews
    \/ \E f \in PhaseBFetchers : FetchReturnsB(f)
    \/ \E f \in PhaseBFetchers : LockB(f)
    \/ \E f \in PhaseBFetchers : AssignB(f)
    \/ WaitB

CrawlNext ==
    \/ CrawlCancel
    \/ CrawlProfile
    \/ CrawlReadme
    \/ CrawlRepos
    \/ GoA
    \/ \E i \in 1..MaxListed : CrawlRepoA(i)
    \/ \E i \in 1..MaxListed : LockA(i)
    \/ \E i \in 1..MaxListed : AppendA(i)
    \/ WaitA
    \/ CrawlExternalReviews
    \/ \E f \in PhaseBFetchers : FetchB(f)
    \/ WaitB

----------------------------------------------------------------------------
\* spreadIndices, with float64 arithmetic as IEEE 754 defines it

\* A float64 that is zero or positive: kind "fin" with an integer part and
\* the bits of the fraction, most significant first (53 significant bits in
\* all), or kind "inf" or "nan".
Float(kind, int, frac) == [kind |-> kind, int |-> int, frac |-> frac]

MantissaBits == 53

\* The number of bits of the integer n >= 0.
RECURSIVE BitLen(_)
BitLen(n) == IF n = 0 THEN 0 ELSE 1 + BitLen(n \div 2)

\* Bit strings are worked on in chunks of this many bits, so that every
\* intermediate number fits the model checker's integers.
ChunkBits == 13

RECURSIVE Pow2(_)
Pow2(k) == IF k = 0 THEN 1 ELSE 2 * Pow2(k - 1)

\* The k binary digits of v < 2^k, most significant first.
ToBits(v, k) == [j \in 1..k |-> (v \div Pow2(k - j)) % 2]

\* The number a bit string of at most ChunkBits bits denotes.
RECURSIVE FromBits(_)
FromBits(bits) ==
    IF bits = <<>> THEN 0
    ELSE 2 * FromBits(SubSeq(bits, 1, Len(bits) - 1)) + bits[Len(bits)]

\* The first `need` binary digits of r/d after the point, for 0 <= r < d,
\* and the remainder left.
RECURSIVE DivFrac(_, _, _)
DivFrac(r, d, need) ==
    IF need <= 0 THEN [bits |-> <<>>, rem |-> r]
    ELSE LET k == IF need < ChunkBits THEN need ELSE ChunkBits
             rest == DivFrac((r * Pow2(k)) % d, d, need - k)
         IN  [bits |-> ToBits((r * Pow2(k)) \div d, k) \o rest.bits, rem |-> rest.rem]

\* bits + 1 as a binary number of the same length, and the carry out.
IncBits(bits) ==
    LET zeros == {k \in 1..Len(bits) : bits[k] = 0} IN
    IF zeros = {} THEN [bits |-> [k \in 1..Len(bits) |-> 0], carry |-> 1]
    ELSE LET z == CHOOSE k \in zeros : \A j \in zeros : j <= k IN
         [bits |-> [k \in 1..Len(bits) |-> IF k < z THEN bits[k] ELSE IF k = z THEN 1 ELSE 0],
          carry |-> 0]

\* Round to nearest, ties to even: int.frac is rounded up when the first
\* dropped bit is 1 and either something non-zero follows or the last kept
\* bit is 1.
RoundNearestEven(int, frac, guard, sticky) ==
    LET last == IF frac = <<>> THEN int % 2 ELSE frac[Len(frac)]
        up == guard = 1 /\ (sticky \/ last = 1)
        inc == IncBits(frac)
    IN  IF up THEN Float("fin", int + inc.carry, inc.bits) ELSE Float("fin", int, frac)

\* float64(n) / float64(d) for integers n >= 0, d >= 0, with n >= d when
\* d > 0 (spreadIndices divides total-1 by count-1 only when count < total)
FloatDiv(n, d) ==
    IF d = 0 THEN (IF n = 0 THEN Float("nan", 0, <<>>) ELSE Float("inf", 0, <<>>))
    ELSE LET whole == n \div d
             q == DivFrac(n % d, d, MantissaBits - BitLen(whole))
         IN  RoundNearestEven(whole, q.bits, (2 * q.rem) \div d, (2 * q.rem) % d # 0)

\* i * frac as a binary fraction of the same length, and the carry out.
RECURSIVE MulFrac(_, _)
MulFrac(i, frac) ==
    IF frac = <<>> THEN [bits |-> <<>>, carry |-> 0]
    ELSE LET k == IF Len(frac) < ChunkBits THEN Len(frac) ELSE ChunkBits
             rest == MulFrac(i, SubSeq(frac, k + 1, Len(frac)))
             p == i * FromBits(SubSeq(frac, 1, k)) + rest.carry
         IN  [bits |-> ToBits(p % Pow2(k), k) \o rest.bits, carry |-> p \div Pow2(k)]

\* float64(i) * x for an integer i >= 0 and x zero, at least 1, Inf or NaN
FloatMul(i, x) ==
    IF x.kind = "nan" THEN x
    ELSE IF x.kind = "inf" THEN (IF i = 0 THEN Float("nan", 0, <<>>) ELSE x)
    ELSE IF i = 0 THEN Float("fin", 0, <<>>)
    ELSE LET m == MulFrac(i, x.frac)
             whole == i * x.int + m.carry
             sig == BitLen(whole) + Len(m.bits)
             drop == IF sig > MantissaBits THEN sig - MantissaBits ELSE 0
             keep == Len(m.bits) - drop
         IN  IF drop = 0 THEN Float("fin", whole, m.bits)
             ELSE RoundNearestEven(whole, SubSeq(m.bits, 1, keep), m.bits[keep + 1],
                                   \E k \in (keep + 2)..Len(m.bits) : m.bits[k] = 1)

\* The most negative int. The model checker's integers have 32 bits; the
\* value stands for math.MinInt64.
MinInt == -2147483647 - 1

\* What int(x) gives for a NaN: the conversion succeeds with a value that
\* depends on the implementation (0 on arm64, the most negative int on amd64).
IndefiniteInts == {0, MinInt}

\* int(x): the integer part of a finite x; `indefinite` otherwise.
FloatToInt(x, indefinite) == IF x.kind = "fin" THEN x.int ELSE indefinite

\* spreadIndices(total, count), on a build whose int(NaN) is `indefinite`
spreadIndices(total, count, indefinite) ==
    IF total <= 0 THEN <<>>
    ELSE IF count >= total THEN [i \in 1..total |-> i - 1]
    ELSE LET step == FloatDiv(total - 1, count - 1) IN
         [i \in 1..count |-> FloatToInt(FloatMul(i - 1, step), indefinite)]

SpreadInit ==
    /\ sppc = "call"
    /\ spTotal \in (-1)..MaxSpreadTotal
    /\ spCount \in 0..MaxSpreadCount
    /\ spOut = <<>>

SpreadParked ==
    /\ sppc = "parked"
    /\ spTotal = 0
    /\ spCount = 1
    /\ spOut = <<>>

\* patchIndices := spreadIndices(spTotal, spCount)
SpreadCall ==
    /\ sppc = "call"
    /\ sppc' = "done"
    /\ \E indefinite \in IndefiniteInts : spOut' = spreadIndices(spTotal, spCount, indefinite)
    /\ UNCHANGED <<spTotal, spCount>>
    /\ UNCHANGED notSpread

SpreadNext == SpreadCall

----------------------------------------------------------------------------
\* Truncate called on its own

\* All sequences of at most n code points are drawn one code point at a time.
TruncInit ==
    /\ tpc = "call"
    /\ \E n \in 0..MaxRunes : \E f \in [1..n -> Runes] :
          /\ tRunes = f
          /\ tS = Utf8(f)
    /\ tMax \in 0..MaxTruncLen
    /\ tSuffix \in Suffixes
    /\ tOut = <<>>
    /\ tOut2 = <<>>

TruncParked ==
    /\ tpc = "parked"
    /\ tRunes = <<>>
    /\ tS = <<>>
    /\ tMax = 0
    /\ tSuffix = <<>>
    /\ tOut = <<>>
    /\ tOut2 = <<>>

\* out := Truncate(s, maxLen, suffix)
TruncateCall ==
    /\ tpc = "call"
    /\ tpc' = "once"
    /\ tOut' = Truncate(tS, tMax, tSuffix)
    /\ UNCHANGED <<tRunes, tS, tMax, tSuffix, tOut2>>
    /\ UNCHANGED notTrunc

\* out2 := Truncate(out, maxLen, suffix)
TruncateAgain ==
    /\ tpc = "once"
    /\ tpc' = "twice"
    /\ tOut2' = Truncate(tOut, tMax, tSuffix)
    /\ UNCHANGED <<tRunes, tS, tMax, tSuffix, tOut>>
    /\ UNCHANGED notTrunc

TruncNext == TruncateCall \/ TruncateAgain

----------------------------------------------------------------------------
\* parseComparisonResult called on its own

\* Score literals and the numbers they denote.
ScoreForms ==
    { [text |-> Str(<<"0">>), value |-> 0],
      [text |-> Str(<<"7", "0">>), value |-> 70],
      [text |-> Str(<<"1", "0", "0">>), value |-> 100] }

\* Feedback literals (what stands between the quotes), the strings they
\* denote, and whether the literal is valid JSON once its literal newlines,
\* carriage returns and tabs are set aside.
FeedbackForm(text, value, valid) == [text |-> text, value |-> value, valid |-> valid]
FeedbackForms ==
    { FeedbackForm(Str(<<"o", "k">>), Str(<<"o", "k">>), TRUE),
      FeedbackForm(Str(<<"o", "\n", "k">>), Str(<<"o", "\n", "k">>), TRUE),
      FeedbackForm(Str(<<"o", "\r", "\n", "k">>), Str(<<"o", "\r", "\n", "k">>), TRUE),
      FeedbackForm(Str(<<"\t", "o", "k">>), Str(<<"\t", "o", "k">>), TRUE),
      FeedbackForm(<<Ascii("o"), BackslashByte, Ascii("n"), Ascii("k")>>,
                   Str(<<"o", "\n", "k">>), TRUE),
      FeedbackForm(<<Ascii("a"), BackslashByte, QuoteByte, NewlineByte, Ascii("b")>>,
                   <<Ascii("a"), QuoteByte, NewlineByte, Ascii("b")>>, TRUE),
      FeedbackForm(Str(<<"a">>) \o Fence \o Str(<<"b">>),
                   Str(<<"a">>) \o Fence \o Str(<<"b">>), TRUE),
      FeedbackForm(<<Ascii("o"), BackslashByte, Ascii("s"), Ascii("k")>>,
                   <<Ascii("o"), BackslashByte, Ascii("s"), Ascii("k")>>, FALSE),
      FeedbackForm(<<Ascii("o"), BackslashByte, NewlineByte, Ascii("k")>>,
                   <<>>, FALSE) }

\* Commentary after the closing brace of the object.
Trailers ==
    { <<>>,
      Str(<<" ", "H", "o", "p", "e", " ", "i", "t", " ", "h", "e", "l", "p", "s", "!">>),
      Str(<<"\n", "N", "o", "t", "e", ":", " ", "}", " ">>) \o Quoted(Str(<<"x">>)) }

\* Commentary before the opening fence.
Leaders == { <<>>, Str(<<"R", "e", "s", "u", "l", "t", ":", "\n">>) }

\* The ways a text is fenced: not at all, with the json tag, without a tag.
FenceKinds == {"none", "json", "bare"}

\* The text of a form: white space, the leader, the object with its trailer,
\* fenced or not, white space.
TextOf(form) ==
    LET body == ScoreObject(form.score.text, form.feedback.text) \o form.trail
        pad == [i \in 1..form.pad |-> IF i % 2 = 1 THEN NewlineByte ELSE SpaceByte]
    IN  pad \o form.lead
        \o (IF form.fence = "none" THEN body
            ELSE Fenced(IF form.fence = "json" THEN JsonTag ELSE <<>>, body))
        \o pad

ParseInit ==
    /\ ppc = "call"
    /\ pForm \in [fence : FenceKinds, lead : Leaders, trail : Trailers, pad : 0..MaxPadding,
                  score : ScoreForms, feedback : FeedbackForms]
    /\ pRaw = TextOf(pForm)
    /\ pOut = NoComparison

ParseParked ==
    /\ ppc = "parked"
    /\ pForm = <<>>
    /\ pRaw = <<>>
    /\ pOut = NoComparison

\* comp, err := parseComparisonResult(raw)
ParseCall ==
    /\ ppc = "call"
    /\ ppc' = "done"
    /\ pOut' = parseComparisonResult(pRaw)
    /\ UNCHANGED <<pForm, pRaw>>
    /\ UNCHANGED notParse

ParseNext == ParseCall

----------------------------------------------------------------------------
\* package ghcrawl: Crawler.fetchIssueComments

maxIssueComments == 500

\* ListOptions{PerPage: 100}: the most comments one Issues.ListComments call
\* brings; fetchIssueComments asks for the first page of an issue only.
CommentsPerPage == 100

\* allComments is kept by its length: the function appends to it and reads
\* nothing of it but len(allComments).

\* What the look at one issue brings: nothing when ownerRepoFromURL or
\* Issues.ListComments fails (continue), otherwise the comments of the page
\* that the user wrote: none, one, all but one or all of a full page.
IssueOutcomes ==
    {[skipped |-> TRUE, matching |-> 0]}
        \cup {[skipped |-> FALSE, matching |-> m] :
                 m \in {0, 1, CommentsPerPage - 1, CommentsPerPage}}

\* len(allComments) >= maxIssueComments
CapReached(n) == n >= maxIssueComments

NotReturnedComments == [len |-> 0, err |-> Nil]

IssueCommentsInit ==
    /\ icpc = "search"
    /\ icPages = 0
    /\ icIssues = 0
    /\ icNextPage = FALSE
    /\ icLen = 0
    /\ icRet = NotReturnedComments

IssueCommentsParked ==
    /\ icpc = "parked"
    /\ icPages = 0
    /\ icIssues = 0
    /\ icNextPage = FALSE
    /\ icLen = 0
    /\ icRet = NotReturnedComments

\* After the last issue of a page:
\* if resp.NextPage == 0 || len(allComments) >= maxIssueComments { break }
EndOfPage(n, next) ==
    IF ~next \/ CapReached(n)
    THEN /\ icpc' = "returned"
         /\ icRet' = [len |-> n, err |-> Nil]
    ELSE /\ icpc' = "search"
         /\ icRet' = icRet

\* issues, resp, err := c.client.Search.Issues(ctx, query, searchOpts)
SearchIssues ==
    /\ icpc = "search"
    /\ \/ /\ icpc' = "returned"
          /\ icRet' = [len |-> icLen, err |-> Ptr("api error")]
          /\ UNCHANGED <<icPages, icIssues, icNextPage>>
       \/ \E n \in 0..MaxIssuesPerPage, next \in BOOLEAN :
            /\ next => icPages + 1 < MaxSearchPages
            /\ icPages' = icPages + 1
            /\ icIssues' = n
            /\ icNextPage' = next
            /\ IF n = 0 THEN EndOfPage(icLen, next)
               ELSE icpc' = "issues" /\ icRet' = icRet
    /\ icLen' = icLen
    /\ UNCHANGED notIssueComments

\* One pass of `for _, issue := range issues.Issues`, and what follows the
\* last one.
LookAtIssue ==
    /\ icpc = "issues"
    /\ icIssues > 0
    /\ IF CapReached(icLen)
       THEN /\ icpc' = "returned"
            /\ icRet' = [len |-> icLen, err |-> Nil]
            /\ UNCHANGED <<icIssues, icLen>>
       ELSE \E out \in IssueOutcomes :
            /\ icLen' = icLen + out.matching
            /\ icIssues' = icIssues - 1
            /\ IF icIssues = 1 THEN EndOfPage(icLen + out.matching, icNextPage)
               ELSE icpc' = "issues" /\ icRet' = icRet
    /\ UNCHANGED <<icPages, icNextPage>>
    /\ UNCHANGED notIssueComments

IssueCommentsNext == SearchIssues \/ LookAtIssue

----------------------------------------------------------------------------
\* package ghcrawl: CrawlResult.TotalReleases

\* make([]ReleaseData, n)
Releases(n) == [k \in 1..n |-> [TagName |-> ""]]

\* The aggregates TotalReleases is called on: repositories with their
\* releases, as crawlRepo stores them in rd.Releases. Nothing in the program
\* (nor in its tests) stores into the Releases field of the CrawlResult
\* itself, which stays nil.
Aggregate(counts) ==
    [Repos |-> [i \in 1..Len(counts) |-> [FullName |-> <<"repo", i>>,
                                          Releases |-> Releases(counts[i])]],
     Releases |-> <<>>]

\* func (r *CrawlResult) TotalReleases() int { return len(r.Releases) }
TotalReleases(r) == Len(r.Releases)

TotalInit ==
    /\ trpc = "call"
    /\ \E n \in 0..MaxTotalRepos : \E counts \in [1..n -> 0..MaxReleases] :
          trData = Aggregate(counts)
    /\ trOut = 0

TotalParked ==
    /\ trpc = "parked"
    /\ trData = Aggregate(<<>>)
    /\ trOut = 0

TotalReleasesCall ==
    /\ trpc = "call"
    /\ trOut' = TotalReleases(trData)
    /\ trpc' = "done"
    /\ UNCHANGED trData
    /\ UNCHANGED notTotal

TotalNext == TotalReleasesCall

----------------------------------------------------------------------------
\* package ghcrawl: Crawler.fetchCommits

\* const maxPatches = 20
maxPatches == 20

\* The i-th commit (from 0) of a listing, as ListCommits returns it.
ListedCommit(i) ==
    [SHA |-> <<"sha", i>>, Message |-> <<"message", i>>, Date |-> i + 1]

\* What GetCommit returns for the i-th commit: its files, some of them without
\* a patch (binary files), and its stats.
CommitDetail(i) ==
    [Files |-> [k \in 1..(1 + (i % 3)) |->
                  [Filename |-> <<"file", k>>,
                   Patch |-> IF k = 2 THEN <<>> ELSE <<"+", i, k>>]],
     Additions |-> i % 4,
     Deletions |-> i % 2]

\* extractPatch(files), for patches shorter than maxPatchLen: a header, the
\* patch and a newline for every file that has a patch.
RECURSIVE extractPatch(_)
extractPatch(files) ==
    IF files = <<>> THEN <<>>
    ELSE LET f == files[1] IN
         (IF f.Patch = <<>> THEN <<>>
          ELSE <<"--- ">> \o f.Filename \o <<" ---", "\n">> \o f.Patch \o <<"\n">>)
         \o extractPatch(Tail(files))

\* cd := CommitData{SHA: ..., Message: ..., Date: ...}
CommitData(cm) ==
    [SHA |-> cm.SHA, Message |-> cm.Message, Date |-> cm.Date,
     Patch |-> <<>>, Additions |-> 0, Deletions |-> 0, FilesChanged |-> 0]

\* cd after a GetCommit call that returned detail
WithDetail(cd, detail) ==
    [cd EXCEPT !.Patch = extractPatch(detail.Files),
               !.Additions = detail.Additions,
               !.Deletions = detail.Deletions,
               !.FilesChanged = Len(detail.Files)]

\* patchSet, the indices of patchIndices; the mutation asks for the first
\* commits of the listing instead.
patchSetFirst(patchIndices) == 0..(Len(patchIndices) - 1)
patchSet(patchIndices) == { patchIndices[k] : k \in 1..Len(patchIndices) }

CommitsInit ==
    /\ fcpc = "list"
    /\ fcCommits = <<>>
    /\ fcPatchIndices = <<>>
    /\ fcI = 0
    /\ fcRequests = <<>>
    /\ fcFailures = {}
    /\ fcResult = <<>>

CommitsParked ==
    /\ fcpc = "parked"
    /\ fcCommits = <<>>
    /\ fcPatchIndices = <<>>
    /\ fcI = 0
    /\ fcRequests = <<>>
    /\ fcFailures = {}
    /\ fcResult = <<>>

\* commits, _, err := c.client.Repositories.ListCommits(...): an error returns
\* nil; otherwise patchIndices is computed and the loop starts (and ends at
\* once for an empty listing).
ListCommits ==
    /\ fcpc = "list"
    /\ \/ /\ fcpc' = "returned"
          /\ UNCHANGED <<fcCommits, fcPatchIndices>>
       \/ \E n \in 0..MaxCommits : \E indefinite \in IndefiniteInts :
             /\ fcCommits' = [k \in 1..n |-> ListedCommit(k - 1)]
             /\ fcPatchIndices' = spreadIndices(n, maxPatches, indefinite)
             /\ fcpc' = IF n = 0 THEN "returned" ELSE "loop"
    /\ UNCHANGED <<fcI, fcRequests, fcFailures, fcResult>>
    /\ UNCHANGED notCommits

\* One pass of `for i, cm := range commits`: the record is made from the
\* listing; for an index of patchSet GetCommit is called, and fills in the
\* patch and the stats unless it fails.
CommitsLoop ==
    /\ fcpc = "loop"
    /\ \E cd \in {CommitData(fcCommits[fcI + 1])} :
          IF fcI \in patchSet(fcPatchIndices)
          THEN /\ fcRequests' = Append(fcRequests, fcI)
               /\ \/ /\ fcResult' = Append(fcResult, WithDetail(cd, CommitDetail(fcI)))
                     /\ UNCHANGED fcFailures
                  \/ /\ Cardinality(fcFailures) < MaxDetailFailures
                     /\ fcFailures' = fcFailures \cup {fcI}
                     /\ fcResult' = Append(fcResult, cd)
          ELSE /\ fcResult' = Append(fcResult, cd)
               /\ UNCHANGED <<fcRequests, fcFailures>>
    /\ fcI' = fcI + 1
    /\ fcpc' = IF fcI + 1 = Len(fcCommits) THEN "returned" ELSE "loop"
    /\ UNCHANGED <<fcCommits, fcPatchIndices>>
    /\ UNCHANGED notCommits

CommitsNext == ListCommits \/ CommitsLoop

----------------------------------------------------------------------------
\* The program: run

\* The j-th review comment Crawl recorded for the i-th repository, with or
\* without diff context. Two comments are two records, whatever their text.
CrawledComment(i, j, hunk) ==
    [Body |-> <<"body", i, j>>, Path |-> "f.go", DiffHunk |-> hunk]

\* The repositories of an aggregate Crawl returns, with their review
\* comments: hunks[i][j] is the diff context of the j-th comment of the i-th.
CrawledRepos(hunks) ==
    [i \in 1..Len(hunks) |->
        RepoDataValue(i, [j \in 1..Len(hunks[i]) |-> CrawledComment(i, j, hunks[i][j])])]

\* return fmt.Errorf("...: %w", err)
MainError(what) == [err |-> Ptr(what)]
MainReturn(what) == mainpc' = "returned" /\ mainRet' = Ptr(MainError(what))

\* if len(heldOut) > 0; the mutation runs the benchmark whatever was held out.
BenchmarkRunsAlways(ho) == TRUE
BenchmarkRuns(ho) == Len(ho) > 0

MainInit ==
    /\ mainpc = "crawl"
    /\ mainResult = <<>>
    /\ mainHeldOut = <<>>
    /\ mainAnalyzed = Nil
    /\ mainPersona = Nil
    /\ mainCalls = <<>>
    /\ mainRet = Nil

MainParked ==
    /\ mainpc = "parked"
    /\ mainResult = <<>>
    /\ mainHeldOut = <<>>
    /\ mainAnalyzed = Nil
    /\ mainPersona = Nil
    /\ mainCalls = <<>>
    /\ mainRet = Nil

\* result, err := crawler.Crawl(ctx, cfg.Username)
MainCrawl ==
    /\ mainpc = "crawl"
    /\ mainCalls' = Append(mainCalls, "Crawl")
    /\ \/ MainReturn("crawling github") /\ UNCHANGED mainResult
       \/ /\ \E k \in 0..MaxMainRepos :
                \E hunks \in [1..k -> SeqsUpTo({"", "@@"}, MaxMainComments)] :
                   mainResult' = CrawledRepos(hunks)
          /\ mainpc' = "split"
          /\ UNCHANGED mainRet
    /\ UNCHANGED <<mainHeldOut, mainAnalyzed, mainPersona>>
    /\ UNCHANGED notMain

\* heldOut := benchmark.SplitReviews(result, benchmark.MaxHeldOut)
MainSplit ==
    /\ mainpc = "split"
    /\ mainCalls' = Append(mainCalls, "SplitReviews")
    /\ \E r \in {SplitReviews(mainResult, MaxHeldOut)} :
          /\ mainResult' = r.Repos
          /\ mainHeldOut' = r.heldOut
    /\ mainpc' = "provider"
    /\ UNCHANGED <<mainAnalyzed, mainPersona, mainRet>>
    /\ UNCHANGED notMain

\* provider, err := llm.NewProvider(...)
MainNewProvider ==
    /\ mainpc = "provider"
    /\ mainCalls' = Append(mainCalls, "NewProvider")
    /\ \/ MainReturn("creating LLM provider")
       \/ mainpc' = "analyze" /\ UNCHANGED mainRet
    /\ UNCHANGED <<mainResult, mainHeldOut, mainAnalyzed, mainPersona>>
    /\ UNCHANGED notMain

\* persona, err := a.Analyze(ctx, cfg.Username, result): Analyze builds its
\* texts from the aggregate before anything else.
MainAnalyze ==
    /\ mainpc = "analyze"
    /\ mainCalls' = Append(mainCalls, "Analyze")
    /\ mainAnalyzed' = Ptr([i \in 1..Len(mainResult) |-> mainResult[i].ReviewComments])
    /\ \/ MainReturn("analyzing persona") /\ UNCHANGED mainPersona
       \/ /\ mainPersona' = Ptr("persona")
          /\ mainpc' = "benchmark"
          /\ UNCHANGED mainRet
    /\ UNCHANGED <<mainResult, mainHeldOut>>
    /\ UNCHANGED notMain

\* if len(heldOut) > 0 { benchResult, refined, err := bench.Run(...); ... }
\* else { slog.Warn(...) }
MainBenchmark ==
    /\ mainpc = "benchmark"
    /\ IF BenchmarkRuns(mainHeldOut)
       THEN /\ mainCalls' = Append(mainCalls, "Run")
            /\ \/ MainReturn("benchmarking persona") /\ UNCHANGED mainPersona
               \/ /\ mainPersona' \in {mainPersona, Ptr("refined")}
                  /\ mainpc' = "generate"
                  /\ UNCHANGED mainRet
       ELSE /\ mainpc' = "generate"
            /\ UNCHANGED <<mainCalls, mainPersona, mainRet>>
    /\ UNCHANGED <<mainResult, mainHeldOut, mainAnalyzed>>
    /\ UNCHANGED notMain

\* paths, err := gen.Generate(cfg.Username, persona)
MainGenerate ==
    /\ mainpc = "generate"
    /\ mainCalls' = Append(mainCalls, "Generate")
    /\ mainpc' = "returned"
    /\ \/ mainRet' = Ptr(MainError("generating skills"))
       \/ mainRet' = Ptr([err |-> Nil])
    /\ UNCHANGED <<mainResult, mainHeldOut, mainAnalyzed, mainPersona>>
    /\ UNCHANGED notMain

MainNext ==
    \/ MainCrawl
    \/ MainSplit
    \/ MainNewProvider
    \/ MainAnalyze
    \/ MainBenchmark
    \/ MainGenerate

----------------------------------------------------------------------------
\* Specifications

InitRun == RunInit /\ SplitParked /\ RTParked /\ CrawlParked /\ SelectParked /\ SpreadParked /\ TruncParked /\ ParseParked /\ IssueCommentsParked /\ TotalParked /\ CommitsParked /\ MainParked
SpecRun == InitRun /\ [][RunNext]_vars

\* Every backend call returns: a step of Run that can be taken is taken.
FairSpecRun == SpecRun /\ WF_vars(RunNext)

InitSplit == SplitInit /\ RunParked /\ RTParked /\ CrawlParked /\ SelectParked /\ SpreadParked /\ TruncParked /\ ParseParked /\ IssueCommentsParked /\ TotalParked /\ CommitsParked /\ MainParked
SplitNext == SplitReviewsCall
SpecSplit == InitSplit /\ [][SplitNext]_vars

InitRT == RTInit /\ RunParked /\ SplitParked /\ CrawlParked /\ SelectParked /\ SpreadParked /\ TruncParked /\ ParseParked /\ IssueCommentsParked /\ TotalParked /\ CommitsParked /\ MainParked
SpecRT == InitRT /\ [][RTNext]_vars

InitCrawl == CrawlInit /\ RunParked /\ SplitParked /\ RTParked /\ SelectParked /\ SpreadParked /\ TruncParked /\ ParseParked /\ IssueCommentsParked /\ TotalParked /\ CommitsParked /\ MainParked
SpecCrawl == InitCrawl /\ [][CrawlNext]_vars

InitSelect == SelectInit /\ RunParked /\ SplitParked /\ RTParked /\ CrawlParked /\ SpreadParked /\ TruncParked /\ ParseParked /\ IssueCommentsParked /\ TotalParked /\ CommitsParked /\ MainParked
SpecSelect == InitSelect /\ [][SelectNext]_vars

InitSpread == SpreadInit /\ RunParked /\ SplitParked /\ RTParked /\ CrawlParked /\ SelectParked /\ TruncParked /\ ParseParked /\ IssueCommentsParked /\ TotalParked /\ CommitsParked /\ MainParked
SpecSpread == InitSpread /\ [][SpreadNext]_vars

InitTrunc == TruncInit /\ RunParked /\ SplitParked /\ RTParked /\ CrawlParked /\ SelectParked /\ SpreadParked /\ ParseParked /\ IssueCommentsParked /\ TotalParked /\ CommitsParked /\ MainParked
SpecTrunc == InitTrunc /\ [][TruncNext]_vars

InitParse == ParseInit /\ RunParked /\ SplitParked /\ RTParked /\ CrawlParked /\ SelectParked /\ SpreadParked /\ TruncParked /\ IssueCommentsParked /\ TotalParked /\ CommitsParked /\ MainParked
SpecParse == InitParse /\ [][ParseNext]_vars

InitIssueComments == IssueCommentsInit /\ RunParked /\ SplitParked /\ RTParked /\ CrawlParked /\ SelectParked /\ SpreadParked /\ TruncParked /\ ParseParked /\ TotalParked /\ CommitsParked /\ MainParked
SpecIssueComments == InitIssueComments /\ [][IssueCommentsNext]_vars

InitTotal == TotalInit /\ RunParked /\ SplitParked /\ RTParked /\ CrawlParked /\ SelectParked /\ SpreadParked /\ TruncParked /\ ParseParked /\ IssueCommentsParked /\ CommitsParked /\ MainParked
SpecTotal == InitTotal /\ [][TotalNext]_vars

InitCommits == CommitsInit /\ RunParked /\ SplitParked /\ RTParked /\ CrawlParked /\ SelectParked /\ SpreadParked /\ TruncParked /\ ParseParked /\ IssueCommentsParked /\ TotalParked /\ MainParked
SpecCommits == InitCommits /\ [][CommitsNext]_vars

InitMain == MainInit /\ RunParked /\ SplitParked /\ RTParked /\ CrawlParked /\ SelectParked /\ SpreadParked /\ TruncParked /\ ParseParked /\ IssueCommentsParked /\ TotalParked /\ CommitsParked
SpecMain == InitMain /\ [][MainNext]_vars

InitPhaseA == PhaseAInit /\ RunParked /\ SplitParked /\ RTParked /\ SelectParked /\ SpreadParked /\ TruncParked /\ ParseParked /\ IssueCommentsParked /\ TotalParked /\ CommitsParked /\ MainParked
SpecPhaseA == InitPhaseA /\ [][PhaseANext]_vars

InitLocks == LocksInit /\ RunParked /\ SplitParked /\ RTParked /\ SelectParked /\ SpreadParked /\ TruncParked /\ ParseParked /\ IssueCommentsParked /\ TotalParked /\ CommitsParked /\ MainParked
SpecLocks == InitLocks /\ [][LocksNext]_vars

----------------------------------------------------------------------------
\* Claims about Benchmarker.Run

RunFinished == bpc \in {"returned", "panicked"}

ScoresBelowTarget(history) ==
    \A k \in 1..Len(history) : RatLess(history[k].Score, 80)

IterationsWithinCeiling ==
    /\ result.Iterations <= 5
    /\ Len(result.History) <= 5
    /\ ret.result # Nil =>
         /\ Deref(ret.result).Iterations <= 5
         /\ Len(Deref(ret.result).History) <= 5
    /\ calls.gen <= 5 * Len(heldOut)
    /\ calls.cmp <= 5 * Len(heldOut)

\* C1: for every non-empty held-out set and every trajectory of grader
\* scores, Run comes to an end when every backend call returns, and at no
\* point, in particular not at the end, has it recorded more than 5
\* iterations: Result.Iterations <= 5 and len(Result.History) <= 5.
C1_TerminatesWithinCeiling == []IterationsWithinCeiling /\ <>RunFinished

\* A run that used the whole budget: five iterations, every score below 80.
C1_Witness ==
    /\ bpc = "returned"
    /\ ret.err = Nil
    /\ Len(heldOut) > 0
    /\ Deref(ret.result).Iterations = 5
    /\ Len(Deref(ret.result).History) = 5
    /\ ScoresBelowTarget(Deref(ret.result).History)

\* C2: Run stops at the first iteration whose average score is >= 80: when
\* the k-th history entry has a score >= 80 it is the last entry, every
\* earlier score is below 80, Run has returned Iterations = k with exactly k
\* history entries, and the backend calls made are those of k iterations and
\* k - 1 refinements, none after iteration k's last comparison.
C2_StopsAtFirstTargetScore ==
    \A k \in 1..Len(result.History) :
        RatGEq(result.History[k].Score, 80) =>
            /\ k = Len(result.History)
            /\ ScoresBelowTarget(SubSeq(result.History, 1, k - 1))
            /\ bpc = "returned"
            /\ ret.err = Nil
            /\ ret.result # Nil
            /\ Deref(ret.result).Iterations = k
            /\ Len(Deref(ret.result).History) = k
            /\ calls.gen = k * Len(heldOut)
            /\ calls.cmp = k * Len(heldOut)
            /\ calls.ref = k - 1

\* The second iteration is the first to reach the target, with a mean of
\* exactly 80 (70 and 90 over two samples).
C2_Witness ==
    /\ bpc = "returned"
    /\ ret.result # Nil
    /\ Deref(ret.result).Iterations = 2
    /\ Len(heldOut) = 2
    /\ Deref(ret.result).History[2].Score = Rat(160, 2)
    /\ RatLess(Deref(ret.result).History[1].Score, 80)

\* C3: if a backend Complete call (generation, comparison or refinement)
\* fails, Run returns an error with a nil result and a nil persona: the
\* history of the iterations completed before is not handed to the caller.
C3_BackendFailureReturnsNothing ==
    failedCall =>
        /\ bpc = "returned"
        /\ ret.err # Nil
        /\ ret.result = Nil
        /\ ret.persona = Nil

\* A backend call fails after at least one iteration was completed and
\* recorded.
C3_Witness ==
    /\ failedCall
    /\ bpc = "returned"
    /\ Len(result.History) >= 1

----------------------------------------------------------------------------
\* Claims about rateLimitTransport.RoundTrip

\* The Retry-After values of the model that give s seconds with 0 < s < 900.
RetrySeconds(h) ==
    CASE h = <<"2">> -> 2
      [] h = <<"8", "9", "9">> -> 899
      [] OTHER -> 0

\* A 403 or 429 with a Retry-After of s seconds, 0 < s < 900.
RateLimitedWithRetry(e) == e.StatusCode \in {403, 429} /\ RetrySeconds(e.RetryAfter) > 0

ContextError == Ptr("context canceled")

\* C4: within one RoundTrip call, every rate-limited response (403 or 429)
\* with a Retry-After of s seconds, 0 < s < 900, is followed by a sleep of s
\* seconds, and a further request is issued only after such a sleep; at most 3
\* requests are issued; unless the context is cancelled, a response that is
\* not rate-limited is the one returned, with no error, and RoundTrip returns
\* the error "retries exhausted" with no response exactly when it has
\* received 3 rate-limited responses and slept after each.
C4_RetriesUpToThreeTimes ==
    /\ rtRequests <= 3
    /\ Len(rtLog) <= rtRequests
    /\ \A i \in 1..Len(rtLog) :
          /\ i < Len(rtLog) => RateLimitedWithRetry(rtLog[i])
          /\ (i < Len(rtLog) \/ rtRet.err = Ptr("retries exhausted")) =>
                /\ Len(rtSlept) >= i
                /\ rtSlept[i] = RetrySeconds(rtLog[i].RetryAfter)
          /\ (i = Len(rtLog) /\ rtpc = "retrySleep") =>
                rtSleep = RetrySeconds(rtLog[i].RetryAfter)
    /\ (rtpc = "returned" /\ rtRet.err # ContextError /\ Len(rtLog) = rtRequests
          /\ rtRequests > 0) =>
          LET last == rtLog[Len(rtLog)] IN
          /\ last.StatusCode \notin {403, 429} =>
                /\ rtRet.err = Nil
                /\ rtRet.resp = rtResp
                /\ Deref(rtRet.resp).StatusCode = last.StatusCode
          /\ RateLimitedWithRetry(last) =>
                /\ rtRequests = 3
                /\ rtRet = [resp |-> Nil, err |-> Ptr("retries exhausted")]
    /\ rtRet.err = Ptr("retries exhausted") =>
          /\ rtRet.resp = Nil
          /\ rtRequests = 3
          /\ \A i \in 1..3 : RateLimitedWithRetry(rtLog[i])

\* Success on attempt 2 after one rate-limited response with Retry-After: 2.
C4_Witness ==
    /\ rtpc = "returned"
    /\ rtRequests = 2
    /\ Len(rtLog) = 2
    /\ rtLog[1].StatusCode = 429
    /\ rtLog[1].RetryAfter = <<"2">>
    /\ rtSlept = <<2>>
    /\ rtRet.err = Nil
    /\ rtRet.resp # Nil
    /\ Deref(rtRet.resp).StatusCode = 200

InSleep == rtpc \in {"retrySleep", "proactiveSleep"}

\* C5: when the request's context is cancelled while RoundTrip is in a retry
\* sleep or a proactive sleep (or is already cancelled when the sleep
\* begins), the next thing RoundTrip does is return the context's error with
\* no response: the clock has not moved by the sleep's duration and no
\* further request is issued.
C5_CancelledSleepReturnsAtOnce ==
    [][(InSleep /\ ctxDone) =>
          /\ rtpc' = "returned"
          /\ rtRet' = [resp |-> Nil, err |-> ContextError]
          /\ rtRequests' = rtRequests
          /\ now' = now
          /\ rtSlept' = rtSlept]_vars

\* RoundTrip has returned the context's error after a cancellation that
\* came during a proactive sleep.
C5_Witness ==
    /\ rtpc = "returned"
    /\ cancelledIn = "proactiveSleep"
    /\ rtRet = [resp |-> Nil, err |-> ContextError]
    /\ rtSlept = <<>>

----------------------------------------------------------------------------
\* Claims about SplitReviews

\* Every review comment of the aggregate, in repository order then comment
\* order, with the name of its repository.
RECURSIVE AllReviews(_, _)
AllReviews(repos, i) ==
    IF i > Len(repos) THEN <<>>
    ELSE [j \in 1..Len(repos[i].ReviewComments) |->
            [RepoFullName |-> repos[i].FullName,
             Body |-> repos[i].ReviewComments[j].Body,
             Path |-> repos[i].ReviewComments[j].Path,
             DiffHunk |-> repos[i].ReviewComments[j].DiffHunk]]
         \o AllReviews(repos, i + 1)

HasDiffHunk(h) == h.DiffHunk # ""

\* The review comments of the aggregate passed in that have a non-empty DiffHunk.
EligibleReviews == SelectSeq(AllReviews(data0, 1), HasDiffHunk)

\* C9: SplitReviews(data, max) holds out at most max review comments,
\* exactly min(max, number of comments with a non-empty DiffHunk) of them,
\* each with a non-empty DiffHunk, and they are the first such comments in
\* repository order then comment order.
C9_HoldsOutFirstEligible ==
    spc = "done" =>
        LET n == IF max <= Len(EligibleReviews) THEN max ELSE Len(EligibleReviews) IN
        /\ Len(held) <= max
        /\ Len(held) = n
        /\ \A k \in 1..Len(held) : held[k].DiffHunk # ""
        /\ held = SubSeq(EligibleReviews, 1, n)

\* More comments are eligible than max = 2, the two held out come from two
\* repositories, and the first comment of the aggregate is passed over.
C9_Witness ==
    /\ spc = "done"
    /\ max = 2
    /\ Len(EligibleReviews) > 2
    /\ Len(held) = 2
    /\ held[1].RepoFullName # held[2].RepoFullName
    /\ data0[1].ReviewComments # <<>>
    /\ data0[1].ReviewComments[1].DiffHunk = ""

\* C10: after SplitReviews returns, no body of a held-out review occurs as
\* the body of a review comment that remains in a repository's
\* ReviewComments list.
C10_NoHeldOutBodyRemains ==
    spc = "done" =>
        \A h \in 1..Len(held) : \A i \in 1..Len(data) :
            \A j \in 1..Len(data[i].ReviewComments) :
                data[i].ReviewComments[j].Body # held[h].Body

----------------------------------------------------------------------------
\* Claims about Crawler.Crawl

\* No goroutine of phase A or B was started and nothing past the listing was
\* fetched.
NothingStarted ==
    /\ spawnedA = 0
    /\ \A i \in 1..Len(taskA) : taskA[i] = "idle"
    /\ \A f \in PhaseBFetchers : taskB[f] = "idle"
    /\ cFetched \cap ({"crawlRepo", "externalReviews"} \cup PhaseBFetchers) = {}

ReturnedError == cpc = "returned" /\ cRet.result = Nil /\ cRet.err # Nil

\* C6: Crawl returns an error and no aggregate when the profile fetch or the
\* repository listing fails, and then no deep-crawl task, external-review
\* discovery or phase-B task has been started (after a profile failure the
\* listing has not even been requested); a failure of the profile-README
\* fetch alone does not make Crawl return an error.
C6_PrerequisiteFailureFailsCrawl ==
    /\ "profile" \in cFailed =>
        ReturnedError /\ NothingStarted /\ cFetched = {"profile"}
    /\ "repos" \in cFailed =>
        ReturnedError /\ NothingStarted /\ cFetched = {"profile", "readme", "repos"}
    /\ (cpc = "returned" /\ "readme" \in cFailed /\ "repos" \notin cFailed) =>
        cRet.err = Nil /\ cRet.result = Ptr(cResult)

\* The listing failed, with no cancellation, after the profile and its README
\* had been fetched, and Crawl returned the wrapped error.
C6_Witness ==
    /\ cpc = "returned"
    /\ cCancelledAt = "none"
    /\ cFailed = {"repos"}
    /\ cResult.User # Nil
    /\ cRet = Returns(Nil, Ptr(<<"listing repos", "api error">>))

\* C7: the failure of any phase-A task or phase-B fetcher, or of any subset
\* of them, never cancels the context of its phase, never stops or prevents
\* a sibling task, and never makes Crawl return an error: once the profile
\* and the listing are in, Crawl returns the aggregate with a nil error,
\* every task has run to its end, and the field of every fetcher that
\* succeeded is populated.
C7_TaskFailureIsContained ==
    /\ cpc = "phaseA" => ~gCancelled /\ gErr = Nil
    /\ cpc = "phaseB" =>
        /\ ~g2Cancelled /\ g2Err = Nil
        /\ \A f \in PhaseBFetchers : taskB[f] = "running" => ENABLED FetchB(f)
    /\ (cpc = "returned" /\ cFailed \cap {"profile", "repos"} = {}) =>
        /\ cRet = Returns(Ptr(cResult), Nil)
        /\ \A i \in 1..Len(deepCrawl) :
            /\ taskA[i] = "done"
            /\ \E k \in 1..Len(cResult.Repos) :
                cResult.Repos[k].FullName = deepCrawl[i].FullName
        /\ \A f \in PhaseBFetchers :
            /\ taskB[f] = "done"
            /\ f \in cFetched
            /\ f \notin cFailed => cResult[f] = Fetched(f)

\* With no cancellation, external-review discovery and three of the seven
\* phase-B fetchers failed; Crawl returned the aggregate of two deep-crawled
\* repositories with the other four fields populated.
C7_Witness ==
    /\ cpc = "returned"
    /\ cCancelledAt = "none"
    /\ cFailed = {"externalReviews", "Gists", "Orgs", "Events"}
    /\ Len(deepCrawl) = 2
    /\ cRet.err = Nil
    /\ cRet.result # Nil
    /\ Deref(cRet.result).Gists = <<>>
    /\ Deref(cRet.result).StarredRepos = Fetched("StarredRepos")
    /\ Len(Deref(cRet.result).Repos) = 2

\* C8: if ctx is cancelled while Crawl is in phase A, in external-review
\* discovery or in phase B, Crawl returns an error that reports the
\* cancellation, not an aggregate with a nil error.
C8_CancellationReturnsError ==
    (cpc = "returned" /\ cCancelledAt \in {"phaseA", "externalReviews", "phaseB"}) =>
        /\ cRet.result = Nil
        /\ cRet.err # Nil

----------------------------------------------------------------------------
\* Claims about selectDiverseRepos

\* The repositories of the input that are owned and no fork, by index.
OwnedNonFork ==
    {i \in 1..Len(selRepos) :
        ~selRepos[i].Fork /\ ToLower(selRepos[i].Owner) = ToLower(username)}

FullNamesOut == {selOut[k].FullName : k \in 1..Len(selOut)}

\* C11: for a list longer than the budget K >= 1, selectDiverseRepos
\* returns exactly K distinct repositories of the input.
C11_ExactlyBudget ==
    (selpc = "done" /\ Len(selRepos) > selMax) =>
        /\ Len(selOut) = selMax
        /\ Cardinality(FullNamesOut) = selMax
        /\ \A k \in 1..Len(selOut) : \E i \in 1..Len(selRepos) : selOut[k] = selRepos[i]

\* Five repositories for a budget of 4, and each of the three phases has
\* picked: the language phase, the temporal fill and the fork fill.
C11_Witness ==
    /\ selpc = "done"
    /\ Len(selRepos) = 5
    /\ selMax = 4
    /\ selLang # {}
    /\ selOwned \ selLang # {}
    /\ \E k \in 1..Len(selOut) : selOut[k].Fork
    /\ Len(selOut) = 4

\* C12: a list no longer than the budget is returned unchanged: the same
\* elements in the same order.
C12_ShortListUnchanged ==
    (selpc = "done" /\ Len(selRepos) <= selMax) => selOut = selRepos

\* A list of exactly K = 3 repositories with a fork, somebody else's
\* repository and an owned one without a language.
C12_Witness ==
    /\ selpc = "done"
    /\ Len(selRepos) = 3
    /\ selMax = 3
    /\ selRepos[1].Fork
    /\ selRepos[2].Owner = "other"
    /\ selRepos[3].Language = ""
    /\ selOut = selRepos

\* The number of distinct primary languages among the repositories at the
\* indices S, the empty language counting as one.
LanguagesAt(S) == Cardinality({selRepos[i].Language : i \in S})

\* C13: for a list longer than K the repositories chosen by the language
\* phase, and so the final selection, cover at least min(D, K div 2)
\* distinct languages, D being the number of distinct primary languages of
\* the owned non-fork repositories.
C13_LanguageCoverage ==
    (selpc = "done" /\ Len(selRepos) > selMax) =>
        LET D == LanguagesAt(OwnedNonFork)
            need == IF D <= selMax \div 2 THEN D ELSE selMax \div 2
        IN  /\ selLang \subseteq OwnedNonFork
            /\ LanguagesAt(selLang) >= need
            /\ Cardinality({selOut[k].Language : k \in {j \in 1..Len(selOut) :
                    ~selOut[j].Fork /\ ToLower(selOut[j].Owner) = ToLower(username)}}) >= need

\* Budget 4, three languages among the owned repositories: the language
\* phase picked two repositories of two languages.
C13_Witness ==
    /\ selpc = "done"
    /\ Len(selRepos) = 5
    /\ selMax = 4
    /\ LanguagesAt(OwnedNonFork) = 3
    /\ Cardinality(selLang) = 2
    /\ LanguagesAt(selLang) = 2

\* C14: a fork or somebody else's repository is selected only when every
\* owned non-fork repository of the input is selected.
C14_OwnedBeforeForks ==
    (selpc = "done" /\ \E k \in 1..Len(selOut) :
            selOut[k].Fork \/ ToLower(selOut[k].Owner) # ToLower(username)) =>
        \A i \in OwnedNonFork : selRepos[i].FullName \in FullNamesOut

\* Budget 2, one owned repository and two that are not: the owned one and
\* one of the others are selected.
C14_Witness ==
    /\ selpc = "done"
    /\ Len(selRepos) = 3
    /\ selMax = 2
    /\ Cardinality(OwnedNonFork) = 1
    /\ \A i \in OwnedNonFork : selRepos[i].FullName \in FullNamesOut
    /\ Len(selOut) = 2

----------------------------------------------------------------------------
\* Claims about spreadIndices

SpreadReturned == sppc = "done"

\* C15: spreadIndices(total, count) returns nil for total <= 0 and 0..total-1
\* for count >= total; otherwise it returns exactly count strictly increasing
\* indices within 0..total-1, the i-th (from 0) being
\* floor(i*(total-1)/(count-1)), so that the first is 0 and the last total-1;
\* with count = 1 the result is <<0>>.
C15_SpreadIndices ==
    SpreadReturned =>
        /\ spTotal <= 0 => spOut = <<>>
        /\ (spTotal > 0 /\ spCount >= spTotal) => spOut = [i \in 1..spTotal |-> i - 1]
        /\ (spTotal > 0 /\ spCount < spTotal) =>
              /\ Len(spOut) = spCount
              /\ \A i \in 1..spCount : spOut[i] \in 0..(spTotal - 1)
              /\ \A i \in 1..(spCount - 1) : spOut[i] < spOut[i + 1]
              /\ spCount >= 1 => spOut[1] = 0
              /\ spCount >= 2 => spOut[spCount] = spTotal - 1
              /\ spCount >= 2 =>
                    \A i \in 1..spCount :
                        spOut[i] = ((i - 1) * (spTotal - 1)) \div (spCount - 1)

----------------------------------------------------------------------------
\* Claims about Truncate

\* C16: truncating the truncated string again, with the same budget and
\* suffix, gives the same string.
C16_TruncateIdempotent == tpc = "twice" => tOut2 = tOut

\* The prefixes of s that end on a code-point boundary, for s the encoding of
\* runes.
BoundaryPrefixes(runes) == { Utf8(SubSeq(runes, 1, k)) : k \in 0..Len(runes) }

\* The longest of them of at most n bytes.
LongestBoundaryPrefix(runes, n) ==
    CHOOSE p \in BoundaryPrefixes(runes) :
        /\ Len(p) <= n
        /\ \A q \in BoundaryPrefixes(runes) : Len(q) <= n => Len(q) <= Len(p)

\* C17: for a valid UTF-8 string s, Truncate returns s when len(s) <= n, and
\* otherwise the longest prefix of s of at most n bytes that ends on a
\* code-point boundary, followed by the suffix.
C17_TruncateAtBoundary ==
    tpc \in {"once", "twice"} =>
        IF Len(tS) <= tMax THEN tOut = tS
        ELSE tOut = LongestBoundaryPrefix(tRunes, tMax) \o tSuffix

\* 'a' and a four-byte emoji cut at 3 bytes give 'a' and the suffix.
C17_Witness ==
    /\ tpc = "once"
    /\ tRunes = <<97, 128512>>
    /\ tS = <<97, 240, 159, 152, 128>>
    /\ tMax = 3
    /\ tOut = <<97>> \o tSuffix

----------------------------------------------------------------------------
\* Claims about parseComparisonResult

\* The texts C18 speaks of: an object that is valid JSON but for literal
\* newlines, carriage returns and tabs in its string value, with or without
\* commentary after its closing brace, bare or wrapped in a code fence (before
\* which there may be commentary).
WrappedObject(form) ==
    /\ form.feedback.valid
    /\ form.lead # <<>> => form.fence # "none"

HasControl(s) == \E i \in 1..Len(s) : s[i] \in {NewlineByte, ReturnByte, TabByte}

\* C18: for an object wrapped in a code fence (with or without the json
\* tag), followed by commentary after its closing brace, or with a literal
\* newline, carriage return or tab in its string value,
\* parseComparisonResult returns the score and the feedback of the object and
\* no error.
C18_RecoversScoreAndFeedback ==
    (ppc = "done" /\ WrappedObject(pForm)) =>
        /\ pOut.err = Nil
        /\ pOut.result = Ptr([score |-> pForm.score.value,
                              feedback |-> pForm.feedback.value])

\* A fenced object with the json tag, commentary after the closing brace and
\* a literal control character in the feedback, recovered by the second decode.
C18_Witness ==
    /\ ppc = "done"
    /\ pForm.fence = "json"
    /\ pForm.trail # <<>>
    /\ HasControl(pForm.feedback.text)
    /\ pForm.score.value = 70
    /\ pOut.decodes = 2
    /\ pOut.result = Ptr([score |-> 70, feedback |-> pForm.feedback.value])

----------------------------------------------------------------------------
\* Claims about parse failures and the empty held-out set in Run

\* Both the decode of the stripped text and the decode of the sanitized
\* text fail.
BothDecodesFail(text) ==
    /\ Decode(stripCodeFences(text), ZeroParsed).err
    /\ Decode(SanitizeJSON(stripCodeFences(text)), ZeroParsed).err

\* e is at most the first ExcerptBytes bytes of text, with the marker after
\* them when text is longer.
IsExcerpt(e, text) ==
    IF Len(text) <= ExcerptBytes THEN e = text
    ELSE \E n \in 0..ExcerptBytes : e = SubSeq(text, 1, n) \o Ellipsis

\* C19: when both decodes of a grader text fail, parseComparisonResult
\* returns an error and no score after exactly two decode attempts, the error
\* carries at most the first 500 bytes of the text and a truncation marker,
\* and Run returns that error with no result and no persona.
C19_ParseFailureAbortsRun ==
    (comp.decodes > 0 /\ BothDecodesFail(cmpRaw)) =>
        /\ comp.result = Nil
        /\ comp.err # Nil
        /\ comp.decodes = 2
        /\ IsExcerpt(Deref(comp.err).raw, cmpRaw)
        /\ bpc = "returned"
        /\ ret = [result |-> Nil, persona |-> Nil, err |-> comp.err]

\* In the second iteration the grader answers with a text of more than 500
\* bytes that is no JSON.
C19_Witness ==
    /\ bpc = "returned"
    /\ iter = 2
    /\ Len(result.History) = 1
    /\ Len(cmpRaw) > ExcerptBytes
    /\ comp.decodes = 2
    /\ Len(Deref(comp.err).raw) < Len(cmpRaw)
    /\ ret.result = Nil
    /\ ret.err # Nil

\* C20: with an empty held-out set Run makes no backend call and returns,
\* without error, FinalScore = -1, Iterations = 0, an empty History and the
\* persona it was given.
C20_EmptyHeldOutSkips ==
    heldOut = <<>> =>
        /\ calls = [gen |-> 0, cmp |-> 0, ref |-> 0]
        /\ bpc \in {"start", "returned"}
        /\ bpc = "returned" =>
              /\ ret.err = Nil
              /\ ret.result = Ptr([FinalScore |-> Rat(-1, 1), Iterations |-> 0,
                                   History |-> <<>>])
              /\ ret.persona = Ptr(persona)
              /\ heap = heap0

C20_Witness ==
    /\ bpc = "returned"
    /\ heldOut = <<>>
    /\ ret.err = Nil
    /\ Deref(ret.result).Iterations = 0

\* C21: Run never modifies the caller's persona, neither the Persona object
\* nor the SynthesisResult it points to: at every point of every run, and so
\* after a run that converged, used up its budget, failed or panicked, every
\* object the caller had holds the value it had at the call. When iteration 1
\* reaches the target, the persona Run returns is a different object whose
\* fields, and those of its SynthesisResult, equal the input's.
C21_PersonaNeverModified ==
    /\ Len(heap) >= Len(heap0)
    /\ \A a \in 1..Len(heap0) : heap[a] = heap0[a]
    /\ (/\ bpc = "returned"
        /\ ret.err = Nil
        /\ heldOut # <<>>
        /\ Deref(ret.result).Iterations = 1
        /\ TargetReached(Deref(ret.result).FinalScore))
       => /\ ret.persona # Nil
          /\ PersonaValue(heap, Deref(ret.persona)) = PersonaValue(heap0, persona)

\* Two samples both scored 90 on iteration 1: FinalScore 90.0, Iterations 1.
C21_Witness ==
    /\ bpc = "returned"
    /\ Len(heldOut) = 2
    /\ ret.err = Nil
    /\ Deref(ret.result).Iterations = 1
    /\ Deref(ret.result).FinalScore = Rat(180, 2)
    /\ \A i \in 1..2 : Deref(ret.result).History[1].Pairs[i].Score = 90
    /\ Deref(ret.persona) # persona
    /\ heap[persona] = heap0[persona]

\* The sum of the scores of an iteration's pairs.
RECURSIVE SumOfScores(_)
SumOfScores(pairs) ==
    IF pairs = <<>> THEN 0 ELSE Head(pairs).Score + SumOfScores(Tail(pairs))

\* The k-th entry of a history is that of the k-th iteration over heldOut:
\* numbered k, one pair per held-out sample in the samples' order, the mean
\* of the pairs' scores as its score, one piece of feedback per sample.
EntryOfIteration(history, k) ==
    LET e == history[k] IN
    /\ e.Iteration = k
    /\ Len(e.Pairs) = Len(heldOut)
    /\ \A i \in 1..Len(heldOut) :
          /\ e.Pairs[i].Original = heldOut[i].Body
          /\ e.Pairs[i].Path = heldOut[i].Path
    /\ e.Score = Rat(SumOfScores(e.Pairs), Len(heldOut))
    /\ Len(e.Feedback) = 2 * Len(heldOut) - 1
    /\ \A j \in 1..Len(e.Feedback) : j % 2 = 0 => e.Feedback[j] = "\n---\n"

HistoryInOrder ==
    /\ Len(result.History) = result.Iterations
    /\ \A k \in 1..Len(result.History) : EntryOfIteration(result.History, k)
    /\ (bpc = "returned" /\ ret.err = Nil) =>
          /\ Len(Deref(ret.result).History) = Deref(ret.result).Iterations
          /\ heldOut # <<>> => Deref(ret.result) = result

\* A step of Run leaves the history alone or appends one entry to it: that
\* of the iteration whose last comparison the step made, with the pairs and
\* the feedback gathered before the step followed by those of this comparison.
HistoryOnlyGrows ==
    \/ result'.History = result.History
    \/ /\ Len(result'.History) = Len(result.History) + 1
       /\ SubSeq(result'.History, 1, Len(result.History)) = result.History
       /\ LET e == result'.History[Len(result'.History)] IN
          /\ e.Iteration = iter
          /\ SubSeq(e.Pairs, 1, Len(e.Pairs) - 1) = iterResult.Pairs
          /\ e.Pairs[Len(e.Pairs)].Score = Deref(comp'.result).score
          /\ e.Pairs[Len(e.Pairs)].Generated = generated
          /\ e.Feedback = JoinFeedback(Append(iterResult.feedbackParts,
                                              Deref(comp'.result).feedback))
          /\ result'.FinalScore = e.Score

\* C22: in every successful Run len(History) = Iterations; the k-th entry
\* carries Iteration = k with that iteration's score, feedback and one pair
\* per held-out sample; and an entry, once appended, is never modified,
\* reordered or removed: every step keeps the history or appends to it.
C22_HistoryKeptInOrder == []HistoryInOrder /\ [][HistoryOnlyGrows]_vars

\* A successful run of three iterations, with two refinements, of which the
\* third reaches the target.
C22_Witness ==
    /\ bpc = "returned"
    /\ ret.err = Nil
    /\ Len(heldOut) = 2
    /\ calls.ref = 2
    /\ Len(Deref(ret.result).History) = 3
    /\ Deref(ret.result).History[1].Score = Rat(140, 2)
    /\ Deref(ret.result).History[3].Score = Rat(160, 2)
    /\ Deref(ret.result).History[3].Iteration = 3

----------------------------------------------------------------------------
\* Claims about the proactive pause of RoundTrip

\* The headers of resp report at most `most` requests remaining and a reset
\* time after t, less than 15 minutes (900 seconds) after it.
QuotaLow(resp, most, t) ==
    /\ ~Atoi(resp.Remaining).err
    /\ Atoi(resp.Remaining).val <= most
    /\ ~Atoi(resp.Reset).err
    /\ Atoi(resp.Reset).val > t
    /\ Atoi(resp.Reset).val - t < 900

\* RoundTrip has slept proactively to the end: one sleep more than retries.
SleptProactively == Len(rtSlept) = attempt + 1

\* RoundTrip sleeps proactively, until the reset time plus one second, before
\* it returns a response that is not rate-limited exactly when the headers
\* report at most `most` requests remaining and a reset time in the future,
\* less than 15 minutes away; otherwise the response is returned at once.
PausesExactlyWhenQuotaLow(most) ==
    (rtResp # Nil /\ ~IsRateLimited(Deref(rtResp))) =>
        LET resp == Deref(rtResp) IN
        /\ rtpc \in {"proactiveSleep", "returned"}
        /\ rtpc = "proactiveSleep" =>
              /\ QuotaLow(resp, most, now)
              /\ now + rtSleep = Atoi(resp.Reset).val + 1
        /\ (rtpc = "returned" /\ rtRet.err = Nil) =>
              /\ rtRet.resp = rtResp
              /\ IF SleptProactively
                 THEN /\ QuotaLow(resp, most, now - rtSlept[Len(rtSlept)])
                      /\ now = Atoi(resp.Reset).val + 1
                 ELSE ~QuotaLow(resp, most, now)
        /\ (rtpc = "returned" /\ rtRet.err # Nil) =>
              /\ rtRet = [resp |-> Nil, err |-> ContextError]
              /\ QuotaLow(resp, most, now)
              /\ ~SleptProactively

\* C23, as stated: the pause is made exactly when fewer than 10 requests
\* remain (at most 9) and the reset time lies in the future, less than 15
\* minutes away.
C23_PausesBelowTen == PausesExactlyWhenQuotaLow(9)

\* C23, amended: the pause is made exactly when the remaining-quota header
\* is an integer of at most 10 and the reset-time header is a time in the
\* future, less than 15 minutes away; the sleep lasts until the reset time
\* plus 1 second, and in every other case the response is returned without
\* sleeping.
C23_PausesAtMostTen == PausesExactlyWhenQuotaLow(10)

\* A response with exactly 10 requests remaining was returned after a pause
\* that ended one second after the reset time.
C23_Witness ==
    /\ rtpc = "returned"
    /\ rtRet.err = Nil
    /\ rtRet.resp # Nil
    /\ Deref(rtRet.resp).StatusCode = 200
    /\ Deref(rtRet.resp).Remaining = <<"1", "0">>
    /\ SleptProactively
    /\ now = Atoi(Deref(rtRet.resp).Reset).val + 1

\* A Retry-After header that is absent, not an integer, <= 0 or >= 900.
RetryAfterUnusable(header) ==
    \/ header = <<>>
    \/ Atoi(header).err
    \/ Atoi(header).val <= 0
    \/ Atoi(header).val >= 900

\* C24: a 403 or 429 response whose Retry-After header is absent, not an
\* integer, <= 0 or >= 900 is the last response RoundTrip receives, on
\* whichever attempt it comes: RoundTrip has returned that very response,
\* body open, with a nil error; it has not slept after it and has issued no
\* further request.
C24_UnusableRetryAfterSurfaces ==
    \A i \in 1..Len(rtLog) :
        (rtLog[i].StatusCode \in {403, 429} /\ RetryAfterUnusable(rtLog[i].RetryAfter)) =>
            /\ i = Len(rtLog)
            /\ rtpc = "returned"
            /\ rtRet.err = Nil
            /\ rtRet.resp = rtResp
            /\ rtRet.resp # Nil
            /\ Deref(rtRet.resp).StatusCode = rtLog[i].StatusCode
            /\ Deref(rtRet.resp).RetryAfter = rtLog[i].RetryAfter
            /\ ~rtLog[i].closed
            /\ rtRequests = i
            /\ Len(rtSlept) = i - 1
            /\ attempt = i - 1

\* The third attempt's response, a 429 with Retry-After: 900, was returned
\* after two retries.
C24_Witness ==
    /\ rtpc = "returned"
    /\ rtRequests = 3
    /\ Len(rtLog) = 3
    /\ rtLog[3].StatusCode = 429
    /\ rtLog[3].RetryAfter = <<"9", "0", "0">>
    /\ rtRet.err = Nil
    /\ rtRet.resp = rtResp
    /\ Len(rtSlept) = 2

----------------------------------------------------------------------------
\* Claims about the tasks of Crawl

\* The phase-A tasks that were started and have not finished.
StartedNotFinished == {i \in 1..spawnedA : taskA[i] # "done"}

\* C25: at every moment of phase A at most 5 deep-crawl tasks are running,
\* for any number of selected repositories, and a task is started only when
\* fewer than 5 are running: a sixth starts only after one of the running
\* five has finished.
C25_AtMostFiveDeepCrawls ==
    [](Cardinality(StartedNotFinished) <= 5)
      /\ [][spawnedA' # spawnedA =>
              /\ Cardinality(StartedNotFinished) < 5
              /\ Cardinality(StartedNotFinished)' = Cardinality(StartedNotFinished) + 1]_vars

\* The sixth task runs beside four of the first five; one has finished.
C25_Witness ==
    /\ cpc = "phaseA"
    /\ Len(deepCrawl) = 6
    /\ spawnedA = 6
    /\ taskA[6] = "running"
    /\ Cardinality(StartedNotFinished) = 5
    /\ Cardinality({i \in 1..5 : taskA[i] = "done"}) = 1

\* The tasks inside the critical section: between mu.Lock() and mu.Unlock().
InCriticalSection ==
    {<<"A", i>> : i \in {j \in 1..Len(taskA) : taskA[j] = "locked"}}
        \cup {<<"B", f>> : f \in {h \in PhaseBFetchers : taskB[h] = "locked"}}

\* The tasks with a network fetch in progress.
Fetching ==
    {<<"A", i>> : i \in {j \in 1..Len(taskA) : taskA[j] = "running"}}
        \cup {<<"B", f>> : f \in {h \in PhaseBFetchers : taskB[h] = "running"}}

\* A step that changes the aggregate while tasks run is made by the one task
\* in the critical section, with the mutex held, and is that task's write:
\* the append of its RepoData, or the assignment of its own field.
WritesUnderMutex ==
    (cpc \in {"phaseA", "phaseB"} /\ cpc' = cpc /\ cResult' # cResult) =>
        /\ mu
        /\ Cardinality(InCriticalSection) = 1
        /\ \E t \in InCriticalSection :
              /\ InCriticalSection' = {}
              /\ ~mu'
              /\ IF t[1] = "A"
                 THEN cResult' = [cResult EXCEPT !.Repos = Append(@, Deref(rdA[t[2]]))]
                 ELSE /\ cResult'[t[2]] # cResult[t[2]]
                      /\ \A field \in DOMAIN cResult :
                            field # t[2] => cResult'[field] = cResult[field]

\* A task enters the critical section only after its fetch has returned,
\* and starts no fetch inside it.
NoFetchUnderMutex ==
    /\ InCriticalSection' \cap Fetching = {}
    /\ InCriticalSection \cap Fetching' = {}

\* C26: every write to the aggregate by a concurrently running task is made
\* with the mutex held, by the task that holds it; at most one task is in
\* the critical section at any time, and the mutex is locked exactly then;
\* no task holds the mutex while one of its fetches is in progress.
C26_WritesUnderOneMutex ==
    [](/\ Cardinality(InCriticalSection) <= 1
       /\ mu <=> InCriticalSection # {}
       /\ InCriticalSection \cap Fetching = {})
      /\ [][WritesUnderMutex /\ NoFetchUnderMutex]_vars

\* A phase-B task holds the mutex while another waits for it and a third
\* is still fetching; phase A has appended two repositories.
C26_Witness ==
    /\ cpc = "phaseB"
    /\ mu
    /\ Len(cResult.Repos) >= 2
    /\ taskB["Gists"] = "locked"
    /\ taskB["Orgs"] = "waitLock"
    /\ taskB["Events"] = "running"
    /\ cResult.IssueComments = Fetched("IssueComments")

----------------------------------------------------------------------------
\* Claims about the repositories of the aggregate

\* The full names of a sequence of repositories or of records of them.
FullNames(rs) == {rs[k].FullName : k \in 1..Len(rs)}

\* C27: after a successful Crawl whose listing is longer than the deep-crawl
\* budget, every listed repository that was not selected for deep crawl has
\* a metadata-only record in result.Repos, and so every listed repository
\* has a record there.
C27_UnselectedReposAreShallow ==
    (cpc = "returned" /\ cRet.err = Nil /\ Len(listing) > cMaxRepos) =>
        LET Repos == Deref(cRet.result).Repos IN
        /\ \A i \in 1..Len(listing) :
              listing[i].FullName \notin FullNames(deepCrawl) =>
                  \E k \in 1..Len(Repos) :
                      /\ Repos[k].FullName = listing[i].FullName
                      /\ Repos[k].Commits = <<>>
        /\ FullNames(listing) \subseteq FullNames(Repos)

----------------------------------------------------------------------------
\* Claims about fetchIssueComments

\* C28: fetchIssueComments never returns more than 500 comments
\* (maxIssueComments), whatever the number of search pages, of issues per
\* page and of matching comments per issue.
C28_AtMostFiveHundredComments == icpc = "returned" => icRet.len <= 500

----------------------------------------------------------------------------
\* Claims about the totals of the aggregate

\* The number of releases of the repositories from the i-th on.
RECURSIVE ReleasesFrom(_, _)
ReleasesFrom(repos, i) ==
    IF i > Len(repos) THEN 0 ELSE Len(repos[i].Releases) + ReleasesFrom(repos, i + 1)

\* C29: TotalReleases returns the sum of the numbers of releases over all
\* repositories of the aggregate (3 and 1 give 4), and 0 for an empty
\* aggregate.
C29_TotalReleasesIsSum == trpc = "done" => trOut = ReleasesFrom(trData.Repos, 1)

\* A text holds a JSON object when an object of the JSON grammar starts at
\* one of its opening braces.
HoldsObject(text) ==
    \E i \in 1..Len(text) : text[i] = OpenBrace /\ ScanValue(text, i).ok

\* The refinement call was answered with a text that holds no JSON object.
UnparseableRefinement == refRaw # <<>> /\ ~HoldsObject(refRaw[1])

\* C30: ParseSynthesis answers every text that holds no JSON object, the
\* empty text and white space included, with an error and never with a crash,
\* so the step of Run that receives such a refinement text makes Run return
\* an error with no result and no persona.
C30_UnparseableRefinementIsAnError ==
    [][(bpc = "refine" /\ UnparseableRefinement') =>
           /\ ParseSynthesis(refRaw'[1]).outcome = "err"
           /\ bpc' = "returned"
           /\ ret'.result = Nil /\ ret'.persona = Nil /\ ret'.err # Nil]_vars

\* The requests of one kind, by their place in the sequence of requests.
RequestsOf(kind) == { i \in 1..Len(requests) : requests[i].kind = kind }

\* Iteration k is recorded with a score below the target and is not the last
\* one the budget allows.
CallsForRefinement(k) ==
    /\ k \in 1..Len(result.History)
    /\ RatLess(result.History[k].Score, 80)
    /\ k < 5

\* A refinement request was made after iteration k, or is the next step.
RefinementAfter(k) ==
    \/ \E i \in RequestsOf("refine") : requests[i].Iteration = k
    \/ bpc = "refine" /\ iter = k

\* Run returned a result.
RunSucceeded == bpc = "returned" /\ ret.err = Nil /\ Len(heldOut) > 0

\* C31: a refinement request is made after iteration k exactly when the score
\* of iteration k is below 80.0 and k < 5, at most once; the persona a
\* refinement returns is the one every generation of iteration k+1 is asked
\* with; and a run that returns a result after n iterations has made exactly
\* n-1 refinement requests, none of them after its last iteration.
C31_RefinesExactlyBelowTarget ==
    /\ \A k \in 1..5 : RefinementAfter(k) <=> CallsForRefinement(k)
    /\ \A i, j \in RequestsOf("refine") : requests[i].Iteration = requests[j].Iteration => i = j
    /\ calls.ref = Cardinality(RequestsOf("refine"))
    /\ \A i \in RequestsOf("refine") : \A j \in RequestsOf("generate") :
           requests[j].Iteration = requests[i].Iteration + 1 =>
               /\ requests[i].returned # Nil
               /\ requests[j].persona = Deref(requests[i].returned)
    /\ RunSucceeded =>
           /\ calls.ref = Deref(ret.result).Iterations - 1
           /\ \A i \in RequestsOf("refine") :
                  requests[i].Iteration < Deref(ret.result).Iterations

\* A run that converged in its third iteration, after two refinements that
\* gave two different personas.
C31_Witness ==
    /\ RunSucceeded
    /\ Deref(ret.result).Iterations = 3
    /\ calls.ref = 2
    /\ RatGEq(Deref(ret.result).FinalScore, 80)
    /\ \E i, j \in RequestsOf("refine") :
           /\ requests[i].Iteration = 1 /\ requests[j].Iteration = 2
           /\ requests[i].returned # requests[j].returned
           /\ requests[Len(requests)].persona = Deref(requests[j].returned)

\* Run returned without an error, with or without a benchmark.
ReturnedNoError == bpc = "returned" /\ ret.err = Nil

\* The persona Run returned, and the one it was called with.
ReturnedPersona == PersonaValue(heap, Deref(ret.persona))
InputPersona == PersonaValue(heap0, persona)

\* The last refinement request.
LastRefinement == requests[CHOOSE i \in RequestsOf("refine") : \A j \in RequestsOf("refine") : j <= i]

\* C32: when Run returns a result, the persona it returns is the one every
\* generation of the last history entry's iteration was asked with, and
\* FinalScore is the Score of the last history entry; the returned persona
\* differs from the input only if a refinement was requested, and after a
\* refinement it is what the latest refinement returned.
C32_ReturnsPersonaOfLastIteration ==
    /\ RunSucceeded =>
          LET res == Deref(ret.result) IN
          /\ Len(res.History) > 0
          /\ res.FinalScore = res.History[Len(res.History)].Score
          /\ \A i \in RequestsOf("generate") :
                 requests[i].Iteration = res.History[Len(res.History)].Iteration =>
                     requests[i].persona = ReturnedPersona
          /\ \E i \in RequestsOf("generate") :
                 requests[i].Iteration = res.History[Len(res.History)].Iteration
          /\ RequestsOf("refine") # {} => Ptr(ReturnedPersona) = LastRefinement.returned
    /\ ReturnedNoError =>
          (ReturnedPersona # InputPersona => RequestsOf("refine") # {})

\* A run of three iterations whose scores went down, from 70 to -5, and whose
\* refinements gave personas different from the input.
C32_Witness ==
    /\ RunSucceeded
    /\ Len(Deref(ret.result).History) >= 3
    /\ Deref(ret.result).History[1].Score = Rat(70, 1)
    /\ Deref(ret.result).FinalScore = Rat(0 - 5, 1)
    /\ ReturnedPersona # InputPersona
    /\ Ptr(ReturnedPersona) = LastRefinement.returned

\* C33: every pair score and every iteration score recorded in History lies
\* in [0,100], whatever text the grader answered with, and each iteration
\* score is the arithmetic mean of the pair scores of that iteration, one
\* pair for each held-out sample.
C33_ScoresWithinRange ==
    \A k \in 1..Len(result.History) :
        LET entry == result.History[k] IN
        /\ Len(entry.Pairs) = Len(heldOut)
        /\ \A p \in 1..Len(entry.Pairs) : entry.Pairs[p].Score \in 0..100
        /\ entry.Score = Rat(SumOfScores(entry.Pairs), Len(heldOut))
        /\ RatGEq(entry.Score, 0)
        /\ entry.Score.num <= 100 * entry.Score.den

----------------------------------------------------------------------------
\* Claims about the order of Crawl's phases

\* fetchExternalReviews was called.
DiscoveryStarted == "externalReviews" \in cFetched

\* Every goroutine of phase A was started and has returned.
PhaseAFinished ==
    /\ spawnedA = Len(deepCrawl)
    /\ \A i \in 1..Len(taskA) : taskA[i] = "done"

\* A goroutine of phase B was started.
PhaseBStarted == \E f \in PhaseBFetchers : taskB[f] # "idle"

\* The order of the phases, in one state: discovery is under way or over only
\* with phase A finished, phase B tasks exist only after discovery, and the
\* names discovery was given are those of the records phase A and the shallow
\* pass had appended.
PhasesInOrder ==
    /\ (cpc = "externalReviews" \/ DiscoveryStarted) => PhaseAFinished
    /\ PhaseBStarted => DiscoveryStarted /\ cpc \in {"phaseB", "returned"}
    /\ DiscoveryStarted =>
          crawledRepos = FullNames(deepCrawl) \cup FullNames(ShallowRepos(cRepos, cMaxRepos, username))

\* The call of fetchExternalReviews is made with the names of all records of
\* result.Repos, and from it on no record of phase A or of the shallow pass
\* is added: result.Repos only grows by what the call returned.
DiscoverySeesAll ==
    /\ (~DiscoveryStarted /\ DiscoveryStarted') =>
          /\ crawledRepos' = FullNames(cResult.Repos)
          /\ SubSeq(cResult'.Repos, 1, Len(cResult.Repos)) = cResult.Repos
          /\ \A k \in (Len(cResult.Repos) + 1)..Len(cResult'.Repos) :
                 cResult'.Repos[k].FullName \notin crawledRepos'
    /\ DiscoveryStarted => cResult'.Repos = cResult.Repos

\* C34: in every execution of Crawl external-review discovery starts only
\* after every phase-A task has finished, no phase-B task starts before
\* discovery has returned, and the search is given the complete set of
\* repositories that phase A and the shallow pass put into result.Repos.
C34_DiscoveryBetweenThePhases == []PhasesInOrder /\ [][DiscoverySeesAll]_vars

\* Phase B runs after a discovery that was given a deep record and a shallow
\* one and found a repository outside them.
C34_Witness ==
    /\ cpc = "phaseB"
    /\ \E f \in PhaseBFetchers : taskB[f] = "done"
    /\ Len(deepCrawl) >= 1
    /\ Cardinality(crawledRepos) >= 2
    /\ Len(cResult.Repos) > Cardinality(crawledRepos)

----------------------------------------------------------------------------
\* Claims about the temporal fill of selectDiverseRepos

\* The repositories the temporal fill could choose from, and those it picked.
StillUnselected == OwnedNonFork \ selLang
TemporalPicks == selOwned \ selLang

\* C35: whenever the temporal fill picks at least two of the still-unselected
\* owned non-fork repositories, its picks include the oldest and the newest
\* of them: a pick that none of them is older than, and a pick that none of
\* them is newer than.
C35_TemporalFillSpansOldestToNewest ==
    (selpc = "done" /\ Len(selRepos) > selMax /\ Cardinality(TemporalPicks) >= 2) =>
        /\ \E p \in TemporalPicks : \A u \in StillUnselected :
               selRepos[p].CreatedAt <= selRepos[u].CreatedAt
        /\ \E p \in TemporalPicks : \A u \in StillUnselected :
               selRepos[p].CreatedAt >= selRepos[u].CreatedAt

----------------------------------------------------------------------------
\* Claims about fetchCommits

\* The indices spreadIndices(n, 20) gives for a listing of length n.
SampleOf(n) ==
    UNION { { indices[k] : k \in 1..Len(indices) } : indices \in {spreadIndices(n, 20, 0)} }

DetailAsked == { fcRequests[k] : k \in 1..Len(fcRequests) }

NoDetail(cd) == Len(cd.Patch) = 0 /\ cd.Additions = 0 /\ cd.Deletions = 0 /\ cd.FilesChanged = 0

\* C36: for a commit listing of length n, fetchCommits calls GetCommit for
\* exactly the min(n, 20) indices spreadIndices(n, 20) gives, each once, and
\* for no other commit; it returns n records in listing order that carry the
\* hash, message and date of the listing; every record outside the sample, and
\* every record whose GetCommit call failed, has an empty patch and zero
\* statistics.
C36_DetailForTheSpreadSampleOnly ==
    fcpc = "returned" =>
        \E n \in {Len(fcCommits)} : \E sample \in {SampleOf(Len(fcCommits))} :
            /\ Len(fcRequests) = (IF n < 20 THEN n ELSE 20)
            /\ Cardinality(DetailAsked) = Len(fcRequests)
            /\ DetailAsked = sample
            /\ DetailAsked \subseteq 0..(n - 1)
            /\ Len(fcResult) = n
            /\ \A i \in 1..n :
                  /\ fcResult[i].SHA = fcCommits[i].SHA
                  /\ fcResult[i].Message = fcCommits[i].Message
                  /\ fcResult[i].Date = fcCommits[i].Date
                  /\ ((i - 1) \notin sample \/ (i - 1) \in fcFailures) =>
                        NoDetail(fcResult[i])

\* A listing of more than 20 commits: 20 detail calls, one of them failed, a
\* record with a patch and a record outside the sample.
C36_Witness ==
    /\ fcpc = "returned"
    /\ Len(fcCommits) > 20
    /\ Len(fcRequests) = 20
    /\ fcFailures # {}
    /\ \E i \in 1..Len(fcResult) : ~NoDetail(fcResult[i])
    /\ \E i \in 1..Len(fcResult) : (i - 1) \notin DetailAsked

----------------------------------------------------------------------------
\* Claims about the program's run

\* The positions of a call in mainCalls.
CallsOf(name) == { k \in 1..Len(mainCalls) : mainCalls[k] = name }

\* The review comments Analyze read, as held-out reviews of their repository.
AnalyzedReviews ==
    IF mainAnalyzed = Nil THEN {}
    ELSE UNION { { HeldOutReview(mainResult[i].FullName, Deref(mainAnalyzed)[i][j]) :
                   j \in 1..Len(Deref(mainAnalyzed)[i]) } :
                 i \in 1..Len(Deref(mainAnalyzed)) }

HeldOutReviews == { mainHeldOut[k] : k \in 1..Len(mainHeldOut) }

\* C37: in every program run SplitReviews is called once, after Crawl has
\* returned and before Analyze; the benchmark is run only when a review was
\* held out; skill files are generated only after a benchmark that, if it was
\* run, returned no error; and no held-out review is among the review comments
\* Analyze reads.
C37_HeldOutReviewsKeptFromAnalysis ==
    /\ \A a \in CallsOf("Analyze") :
          \E sp \in CallsOf("SplitReviews") : \E c \in CallsOf("Crawl") : c < sp /\ sp < a
    /\ \A sp \in CallsOf("SplitReviews") : \E c \in CallsOf("Crawl") : c < sp
    /\ Cardinality(CallsOf("SplitReviews")) <= 1
    /\ CallsOf("Run") # {} => mainHeldOut # <<>>
    /\ \A r \in CallsOf("Run") : \E a \in CallsOf("Analyze") : a < r
    /\ \A g \in CallsOf("Generate") :
          /\ \E a \in CallsOf("Analyze") : a < g
          /\ mainHeldOut # <<>> => \E r \in CallsOf("Run") : r < g
          /\ mainPersona # Nil
    /\ (mainRet # Nil /\ Deref(mainRet) = MainError("benchmarking persona")) =>
          CallsOf("Generate") = {}
    /\ AnalyzedReviews \cap HeldOutReviews = {}

\* A run that held out three reviews of two repositories, analysed the four
\* that were left, ran the benchmark and generated the skill files.
C37_Witness ==
    /\ mainpc = "returned"
    /\ Deref(mainRet).err = Nil
    /\ Len(mainHeldOut) = MaxHeldOut
    /\ Cardinality(AnalyzedReviews) >= 2
    /\ \E rv \in AnalyzedReviews : rv.DiffHunk # ""
    /\ CallsOf("Run") # {}
    /\ CallsOf("Generate") # {}

----------------------------------------------------------------------------
\* Claims about the records of result.Repos

\* C38: after a successful Crawl no repository full name occurs more than
\* once in result.Repos: no repository has both a deep-crawled and a shallow
\* record, and the external-review records repeat no repository that is
\* already there.
C38_NoRepositoryTwice ==
    (cpc = "returned" /\ cRet.err = Nil) =>
        \A j, k \in 1..Len(Deref(cRet.result).Repos) :
            j # k => Deref(cRet.result).Repos[j].FullName # Deref(cRet.result).Repos[k].FullName

----------------------------------------------------------------------------
\* Claims about what SplitReviews leaves alone

\* The elements of seq at the positions of K, in order.
RECURSIVE Picked(_, _, _)
Picked(seq, K, j) ==
    IF j > Len(seq) THEN <<>>
    ELSE (IF j \in K THEN <<seq[j]>> ELSE <<>>) \o Picked(seq, K, j + 1)

\* The held-out reviews taken from the i-th repository, in order.
HeldOutOf(i) == SelectSeq(held, LAMBDA h : h.RepoFullName = data0[i].FullName)

\* The i-th repository's original review comments, as held-out reviews.
OriginalsOf(i) ==
    [j \in 1..Len(data0[i].ReviewComments) |->
        HeldOutReview(data0[i].FullName, data0[i].ReviewComments[j])]

\* C39: SplitReviews neither loses nor duplicates a comment and touches
\* nothing else: each repository's original review comments split into the
\* comments left in ReviewComments, in their original order, and the held-out
\* reviews taken from that repository; the number of repositories and every
\* other field of each of them are as before.
C39_SplitMovesCommentsOnly ==
    spc = "done" =>
        /\ Len(data) = Len(data0)
        /\ \A i \in 1..Len(data0) :
              /\ [data[i] EXCEPT !.ReviewComments = data0[i].ReviewComments] = data0[i]
              /\ \E K \in SUBSET (1..Len(data0[i].ReviewComments)) :
                    /\ Picked(data0[i].ReviewComments, K, 1) = data[i].ReviewComments
                    /\ Picked(OriginalsOf(i), (1..Len(data0[i].ReviewComments)) \ K, 1) = HeldOutOf(i)
        /\ \A k \in 1..Len(held) :
              \E i \in 1..Len(data0) : held[k].RepoFullName = data0[i].FullName

\* Two repositories give a review each and keep two comments between them,
\* one of them eligible and passed over because the budget was used.
C39_Witness ==
    /\ spc = "done"
    /\ Len(data0) = 2
    /\ Len(held) = 2
    /\ Len(HeldOutOf(1)) = 1
    /\ Len(HeldOutOf(2)) = 1
    /\ Len(data[1].ReviewComments) + Len(data[2].ReviewComments) >= 2
    /\ \E i \in 1..2 : \E j \in 1..Len(data[i].ReviewComments) :
          data[i].ReviewComments[j].DiffHunk # ""

----------------------------------------------------------------------------
\* Claims about the response bodies of RoundTrip

BaseTransportFailed == rtRet.err = Ptr("base transport error")

\* C40: when RoundTrip has returned, every response the base transport gave
\* is the one returned to the caller, with a nil error, or has its body
\* closed; RoundTrip never returns a response together with an error; and a
\* base-transport error is returned at once: the call that failed is the last
\* one made, and no call is made after a failure.
C40_EveryBodyReturnedOrClosed ==
    /\ rtpc = "returned" =>
          /\ \A k \in 1..Len(rtLog) :
                \/ rtLog[k].closed
                \/ /\ k = Len(rtLog)
                   /\ rtRet.err = Nil
                   /\ rtRet.resp = rtResp
                   /\ LogEntry(Deref(rtResp), FALSE) = rtLog[k]
          /\ ~(rtRet.resp # Nil /\ rtRet.err # Nil)
          /\ rtRet.resp # Nil \/ rtRet.err # Nil
          /\ BaseTransportFailed => rtRequests = Len(rtLog) + 1
          /\ ~BaseTransportFailed => rtRequests = Len(rtLog)
    /\ rtpc # "returned" => (rtRequests = Len(rtLog) /\ rtRet = NoResponse)

\* A rate-limited response was closed and retried, and the caller cancelled
\* during the pause that followed the second response.
C40_Witness ==
    /\ rtpc = "returned"
    /\ Len(rtLog) = 2
    /\ rtLog[1].StatusCode = 429
    /\ rtLog[2].StatusCode = 200
    /\ cancelledIn = "proactiveSleep"
    /\ rtRet.err = Ptr("context canceled")

====
